---- MODULE Spec2Model ----
(***************************************************************************)
(* kars: the media domain model (core/models.rs), its wire mapping         *)
(* (core/api_types.rs) and its row mapping (infra/database.rs).            *)
(*                                                                         *)
(* Representation choices                                                  *)
(*   Option<T>   None is {} and Some(x) is {x}.                            *)
(*   f32         a display number is a record: cls "num" carries the value *)
(*               in hundredths (v = 995 is 9.95), cls "nan" is NaN and     *)
(*               cls "inf" is an infinity whose sign is v.                 *)
(*   enum        a variant is the string of its Rust path.                 *)
(*   Uuid        a number 1..MaxId; its text forms are records (IdText).   *)
(***************************************************************************)
EXTENDS Integers, Sequences, FiniteSets, TLC

VARIABLES
    item,    \* the MediaItem the operations act on (Option)
    before,  \* the MediaItem the last operation was applied to (Option)
    op,      \* name of the last operation
    prev,    \* name of the operation before the last
    arg,     \* argument of the last operation that took one (Option)
    ret,     \* value returned by the last operation (Option)
    wire,    \* the ApiMediaItem last produced or received (Option)
    row      \* the media_items row last written (Option)

vars == <<item, before, op, prev, arg, ret, wire, row>>

----------------------------------------------------------------------------
(* Bounds of the model *)

\* progress counters range over 0..MaxProgress
MaxProgress == 2
\* identifiers are 1..MaxId
MaxId == 2
\* score inputs range from MaxOver hundredths below 0.0 to MaxOver above 10.0
MaxOver == 120

----------------------------------------------------------------------------
(* Option *)

None == {}
Some(x) == {x}
IsSome(o) == o # {}
Unwrap(o) == CHOOSE x \in o : TRUE
Option(S) == {None} \cup {Some(x) : x \in S}

----------------------------------------------------------------------------
(* core/models.rs: the enums *)

WatchStatus == {"WatchStatus::Watching", "WatchStatus::PlanToWatch",
                "WatchStatus::Completed", "WatchStatus::OnHold",
                "WatchStatus::Dropped"}

ReadStatus == {"ReadStatus::Reading", "ReadStatus::PlanToRead",
               "ReadStatus::Completed", "ReadStatus::OnHold",
               "ReadStatus::Dropped"}

ReadableKind == {"ReadableKind::Book", "ReadableKind::WebNovel",
                 "ReadableKind::LightNovel", "ReadableKind::Manga",
                 "ReadableKind::Manhwa", "ReadableKind::Webtoon"}

Progress == [current : 0..MaxProgress, total : Option(0..MaxProgress)]

Movie(ws) == [tag |-> "Movie", status |-> ws]
Series(p, ws) == [tag |-> "Series", progress |-> p, status |-> ws]
Readable(k, p, rs) == [tag |-> "Readable", kind |-> k, progress |-> p, status |-> rs]

MediaItemType ==
    {Movie(ws) : ws \in WatchStatus}
    \cup {Series(p, ws) : p \in Progress, ws \in WatchStatus}
    \cup {Readable(k, p, rs) : k \in ReadableKind, p \in Progress, rs \in ReadStatus}

----------------------------------------------------------------------------
(* core/models.rs: Progress *)

\* hundredths per unit of a display number
Unit == 100

Num(k) == [cls |-> "num", v |-> k]
NaN == [cls |-> "nan", v |-> 0]
Inf(sign) == [cls |-> "inf", v |-> sign]

\* an exact quotient n/d (d > 0) as a pair, for the percentage
Ratio(n, d) == [num |-> n, den |-> d]

\* a percentage that is clamped to the total
percent_clamped(self) ==
    IF IsSome(self.total) /\ Unwrap(self.total) > 0
    THEN Some(Ratio((IF self.current > Unwrap(self.total) THEN Unwrap(self.total) ELSE self.current) * 100,
                    Unwrap(self.total)))
    ELSE IF self.total = Some(0)
    THEN Some(Ratio(0, 1))
    ELSE None

percent(self) ==
    IF IsSome(self.total) /\ Unwrap(self.total) > 0
    THEN Some(Ratio(self.current * 100, Unwrap(self.total)))
    ELSE IF self.total = Some(0)
    THEN Some(Ratio(0, 1))
    ELSE None

\* a completion test that forgets the t > 0 guard
is_finished_unguarded(self) ==
    IF IsSome(self.total) THEN self.current >= Unwrap(self.total) ELSE FALSE

is_finished(self) ==
    IF IsSome(self.total) /\ Unwrap(self.total) > 0
    THEN self.current >= Unwrap(self.total)
    ELSE FALSE

----------------------------------------------------------------------------
(* core/models.rs: MediaItem *)

MediaItem(id, title, media_type, score, global_score, external_id, poster_url, source, tags) ==
    [id |-> id, title |-> title, media_type |-> media_type, score |-> score,
     global_score |-> global_score, external_id |-> external_id,
     poster_url |-> poster_url, source |-> source, tags |-> tags]

\* f32::clamp(0.0, 10.0) on a display number: NaN stays NaN
clamp(x) ==
    IF x.cls = "nan" THEN x
    ELSE IF x.cls = "inf" THEN (IF x.v < 0 THEN Num(0) ELSE Num(10 * Unit))
    ELSE IF x.v < 0 THEN Num(0)
    ELSE IF x.v > 10 * Unit THEN Num(10 * Unit)
    ELSE x

\* f32::round of a non-negative quotient n/d: the nearest integer, halves away from zero
round(n, d) == (2 * n + d) \div (2 * d)

\* an encoding that forgets the clamp: the cast to u8 saturates at 255
clamp_score_unclamped(input_score) ==
    IF input_score.cls = "nan" THEN 0
    ELSE IF input_score.cls = "inf" THEN (IF input_score.v < 0 THEN 0 ELSE 255)
    ELSE IF input_score.v < 0 THEN 0
    ELSE IF round(input_score.v * 10, Unit) > 255 THEN 255
    ELSE round(input_score.v * 10, Unit)

\* an encoding that truncates instead of rounding
clamp_score_truncates(input_score) ==
    LET c == clamp(input_score)
    IN IF c.cls = "nan" THEN 0 ELSE ((c.v * 10) \div Unit) % 256

\* (input_score.clamp(0.0, 10.0) * 10.0).round() as u8; NaN as u8 is 0
clamp_score(input_score) ==
    LET c == clamp(input_score)
    IN IF c.cls = "nan" THEN 0 ELSE round(c.v * 10, Unit) % 256

\* s as f32 / 10.0
score_display(score) ==
    IF IsSome(score) THEN Some(Num((Unwrap(score) * Unit) \div 10)) ELSE None

set_score(self, input_score) ==
    [self EXCEPT !.score = Some(clamp_score(input_score))]

set_global_score(self, input_score) ==
    [self EXCEPT !.global_score = Some(clamp_score(input_score))]

get_score_display(self) == score_display(self.score)

get_global_score_display(self) == score_display(self.global_score)

\* a completion test that looks at the status only
is_completed_status_only(self) ==
    self.media_type.status \in {"WatchStatus::Completed", "ReadStatus::Completed"}

\* a completion test that looks at the progress only
is_completed_progress_only(self) ==
    self.media_type.tag \in {"Series", "Readable"} /\ is_finished(self.media_type.progress)

is_completed(self) ==
    LET mt == self.media_type
    IN IF \/ mt.tag = "Movie" /\ mt.status = "WatchStatus::Completed"
          \/ mt.tag = "Series" /\ mt.status = "WatchStatus::Completed"
          \/ mt.tag = "Readable" /\ mt.status = "ReadStatus::Completed"
       THEN TRUE
       ELSE IF mt.tag \in {"Series", "Readable"} /\ is_finished(mt.progress)
       THEN TRUE
       ELSE FALSE

\* a completion that fills in an absent total but leaves current where it was
complete_progress_keeps_current(p) ==
    [current |-> p.current, total |-> IF IsSome(p.total) THEN p.total ELSE Some(p.current)]

\* a completion that adds current to the total instead of filling in an absent one
complete_progress_accumulates(p) ==
    LET total == (IF IsSome(p.total) THEN Unwrap(p.total) ELSE 0) + p.current
    IN [current |-> total, total |-> Some(total)]

\* a completion that always overwrites the total with current
complete_progress_overwrites(p) ==
    [current |-> p.current, total |-> Some(p.current)]

\* p.total = p.total.or(Some(p.current)); if let Some(t) = p.total { p.current = t; }
complete_progress(p) ==
    LET total == IF IsSome(p.total) THEN p.total ELSE Some(p.current)
    IN [current |-> Unwrap(total), total |-> total]

force_complete(self) ==
    LET mt == self.media_type
    IN IF mt.tag = "Movie"
       THEN [self EXCEPT !.media_type.status = "WatchStatus::Completed"]
       ELSE IF mt.tag = "Series"
       THEN [self EXCEPT !.media_type.status = "WatchStatus::Completed",
                         !.media_type.progress = complete_progress(mt.progress)]
       ELSE [self EXCEPT !.media_type.status = "ReadStatus::Completed",
                         !.media_type.progress = complete_progress(mt.progress)]

----------------------------------------------------------------------------
(* The records the operations of core/models.rs are applied to *)

\* a record as MediaItem::new leaves it (core/models.rs:89)
new(id, title, media_type) ==
    MediaItem(id, title, media_type, None, None, None, None, None, {})

\* a record that was imported, scored and tagged
Rich(id, title, media_type) ==
    MediaItem(id, title, media_type, Some(85), Some(79), Some(7),
              Some("https://img/p.jpg"), Some("anilist"), {"favorite", "scifi"})

ModelItems ==
    {new(1, "Dune", mt) : mt \in MediaItemType}
    \cup {Rich(MaxId, "Akira", mt) : mt \in MediaItemType}

HasProgress(it) == it.media_type.tag \in {"Series", "Readable"}

InitModel ==
    /\ item \in {Some(it) : it \in ModelItems}
    /\ before = None
    /\ op = "new"
    /\ prev = "new"
    /\ arg = None
    /\ ret = None
    /\ wire = None
    /\ row = None

\* item.force_complete()
ForceComplete ==
    /\ item' = Some(force_complete(Unwrap(item)))
    /\ before' = item
    /\ op' = "force_complete"
    /\ prev' = op
    /\ ret' = None
    /\ UNCHANGED <<arg, wire, row>>

\* item.is_completed()
IsCompleted ==
    /\ ret' = Some(is_completed(Unwrap(item)))
    /\ before' = item
    /\ op' = "is_completed"
    /\ prev' = op
    /\ UNCHANGED <<item, arg, wire, row>>

\* p.is_finished() on the progress of a Series or Readable
IsFinished ==
    /\ HasProgress(Unwrap(item))
    /\ ret' = Some(is_finished(Unwrap(item).media_type.progress))
    /\ before' = item
    /\ op' = "is_finished"
    /\ prev' = op
    /\ UNCHANGED <<item, arg, wire, row>>

\* p.percent() on the progress of a Series or Readable
Percent ==
    /\ HasProgress(Unwrap(item))
    /\ ret' = Some(percent(Unwrap(item).media_type.progress))
    /\ before' = item
    /\ op' = "percent"
    /\ prev' = op
    /\ UNCHANGED <<item, arg, wire, row>>

NextModel == ForceComplete \/ IsCompleted \/ IsFinished \/ Percent

SpecModel == InitModel /\ [][NextModel]_vars

----------------------------------------------------------------------------
(* Text forms.  A string that is meant to be parsed is a record naming its form and
   the value it spells, so that formatting and parsing are separate steps. *)

Uuids == 1..MaxId

\* Uuid::to_string: the hyphenated lower-case form
uuid_to_string(u) == [form |-> "hyphenated", uuid |-> u]

EmptyText == [form |-> "empty", uuid |-> 0]
JunkText == [form |-> "junk", uuid |-> 0]

\* the strings an id field can hold: every form Uuid::parse_str reads, "" and junk
IdText ==
    [form : {"hyphenated", "simple", "urn", "braced", "upper"}, uuid : Uuids]
    \cup {EmptyText, JunkText}

Ok(v) == [ok |-> TRUE, val |-> v]
Err(kind, detail) == [ok |-> FALSE, err |-> kind, detail |-> detail]

\* Uuid::parse_str
parse_str(t) ==
    IF t.form \in {"hyphenated", "simple", "urn", "braced", "upper"}
    THEN Ok(t.uuid)
    ELSE Err("uuid::Error", t.form)

\* u32::to_string: the decimal digits
u32_to_string(n) == [form |-> "decimal", n |-> n]

\* str::parse::<u32>().ok(): digits, with an optional leading + or zeros
parse_u32_ok(t) == IF t.form \in {"decimal", "padded"} THEN Some(t.n) ELSE None

\* the orders in which HashSet::iter can yield the elements of a set
Orders(set) == {q \in [1..Cardinality(set) -> set] :
                   \A i, j \in 1..Cardinality(set) : i # j => q[i] # q[j]}

\* Vec<String>::into_iter().collect::<HashSet<String>>()
collect(vec) == {vec[i] : i \in 1..Len(vec)}

----------------------------------------------------------------------------
(* core/api_types.rs *)

ApiMediaItem(id, title, media_type, status, score, global_score, progress, total_episodes, poster_url, source, external_id, tags, favorite) ==
    [id |-> id, title |-> title, media_type |-> media_type, status |-> status,
     score |-> score, global_score |-> global_score, progress |-> progress,
     total_episodes |-> total_episodes, poster_url |-> poster_url,
     source |-> source, external_id |-> external_id, tags |-> tags,
     favorite |-> favorite]

\* a status name with a typo, which the parser then does not know
watch_status_str_typo(s) ==
    CASE s = "WatchStatus::Watching" -> "watching"
      [] s = "WatchStatus::PlanToWatch" -> "plan_to_watch"
      [] s = "WatchStatus::Completed" -> "completed"
      [] s = "WatchStatus::OnHold" -> "onhold"
      [] s = "WatchStatus::Dropped" -> "dropped"

watch_status_str(s) ==
    CASE s = "WatchStatus::Watching" -> "watching"
      [] s = "WatchStatus::PlanToWatch" -> "plan_to_watch"
      [] s = "WatchStatus::Completed" -> "completed"
      [] s = "WatchStatus::OnHold" -> "on_hold"
      [] s = "WatchStatus::Dropped" -> "dropped"

read_status_str(s) ==
    CASE s = "ReadStatus::Reading" -> "reading"
      [] s = "ReadStatus::PlanToRead" -> "plan_to_read"
      [] s = "ReadStatus::Completed" -> "completed"
      [] s = "ReadStatus::OnHold" -> "on_hold"
      [] s = "ReadStatus::Dropped" -> "dropped"

readable_kind_str(k) ==
    CASE k = "ReadableKind::Manga" -> "manga"
      [] k = "ReadableKind::Manhwa" -> "manhwa"
      [] k = "ReadableKind::Webtoon" -> "webtoon"
      [] k = "ReadableKind::Book" -> "book"
      [] k = "ReadableKind::LightNovel" -> "light_novel"
      [] k = "ReadableKind::WebNovel" -> "web_novel"

\* a status parser that knows only the watch names, not the read names
api_parse_watch_status_own_names(s) ==
    CASE s = "watching" -> "WatchStatus::Watching"
      [] s = "plan_to_watch" -> "WatchStatus::PlanToWatch"
      [] s = "completed" -> "WatchStatus::Completed"
      [] s = "on_hold" -> "WatchStatus::OnHold"
      [] s = "dropped" -> "WatchStatus::Dropped"
      [] OTHER -> "WatchStatus::Completed"

api_parse_watch_status(s) ==
    CASE s \in {"watching", "reading"} -> "WatchStatus::Watching"
      [] s \in {"plan_to_watch", "plan_to_read"} -> "WatchStatus::PlanToWatch"
      [] s = "completed" -> "WatchStatus::Completed"
      [] s = "on_hold" -> "WatchStatus::OnHold"
      [] s = "dropped" -> "WatchStatus::Dropped"
      [] OTHER -> "WatchStatus::PlanToWatch"

api_parse_read_status(s) ==
    CASE s \in {"reading", "watching"} -> "ReadStatus::Reading"
      [] s \in {"plan_to_read", "plan_to_watch"} -> "ReadStatus::PlanToRead"
      [] s = "completed" -> "ReadStatus::Completed"
      [] s = "on_hold" -> "ReadStatus::OnHold"
      [] s = "dropped" -> "ReadStatus::Dropped"
      [] OTHER -> "ReadStatus::PlanToRead"

\* a label for a Series that ignores where the record came from
series_media_type_plain(source) == "series"

\* match item.source.as_deref() { Some("anilist") => "anime", _ => "series" }
series_media_type(source) == IF source = Some("anilist") THEN "anime" ELSE "series"

\* impl From<&MediaItem> for ApiMediaItem; iter is the order in which item.tags.iter()
\* yields the tags
ApiMediaItem_from(it, iter) ==
    LET mt == it.media_type
        media_type == CASE mt.tag = "Movie" -> "movie"
                        [] mt.tag = "Series" -> series_media_type(it.source)
                        [] mt.tag = "Readable" -> readable_kind_str(mt.kind)
        status == IF mt.tag = "Readable" THEN read_status_str(mt.status)
                  ELSE watch_status_str(mt.status)
        progress == IF mt.tag = "Movie" THEN 0 ELSE mt.progress.current
        total == IF mt.tag = "Movie" THEN None ELSE mt.progress.total
    IN ApiMediaItem(uuid_to_string(it.id), it.title, media_type, status,
                    get_score_display(it), get_global_score_display(it),
                    progress, total, it.poster_url, it.source,
                    IF IsSome(it.external_id)
                    THEN Some(u32_to_string(Unwrap(it.external_id))) ELSE None,
                    iter, "favorite" \in it.tags)

\* the Readable sub-kind a wire media_type names
WireReadableKind(media_type) ==
    CASE media_type = "manga" -> "ReadableKind::Manga"
      [] media_type = "manhwa" -> "ReadableKind::Manhwa"
      [] media_type = "webtoon" -> "ReadableKind::Webtoon"
      [] media_type = "book" -> "ReadableKind::Book"
      [] media_type = "light_novel" -> "ReadableKind::LightNovel"
      [] media_type = "web_novel" -> "ReadableKind::WebNovel"

\* an identifier step that replaces an unreadable id by a fresh one
wire_id_lenient(id, fresh) ==
    IF id = EmptyText \/ ~parse_str(id).ok THEN Ok(fresh) ELSE parse_str(id)

\* if self.id.is_empty() { Uuid::new_v4() } else { Uuid::parse_str(&self.id) ... ? }
wire_id(id, fresh) ==
    IF id = EmptyText THEN Ok(fresh)
    ELSE IF parse_str(id).ok THEN parse_str(id)
    ELSE Err("Invalid UUID", id)

WireMediaTypes ==
    {"movie", "series", "anime", "manga", "manhwa", "webtoon", "book", "light_novel",
     "web_novel"}

\* a kind step that takes an unknown media_type for a movie
wire_media_type_defaults(media_type, status, progress) ==
    IF media_type \in {"series", "anime"}
    THEN Ok(Series(progress, api_parse_watch_status(status)))
    ELSE IF media_type \in WireMediaTypes \ {"movie"}
    THEN Ok(Readable(WireReadableKind(media_type), progress, api_parse_read_status(status)))
    ELSE Ok(Movie(api_parse_watch_status(status)))

\* match self.media_type.as_str() { ... other => return Err(..) }
wire_media_type(media_type, status, progress) ==
    IF media_type = "movie" THEN Ok(Movie(api_parse_watch_status(status)))
    ELSE IF media_type \in {"series", "anime"}
    THEN Ok(Series(progress, api_parse_watch_status(status)))
    ELSE IF media_type \in WireMediaTypes
    THEN Ok(Readable(WireReadableKind(media_type), progress, api_parse_read_status(status)))
    ELSE Err("Unknown media_type", media_type)

\* a tag step that ignores the favorite flag
wire_tags_ignores_flag(tags, favorite) == collect(tags)

\* self.tags.into_iter().collect(), then tags.insert("favorite") if self.favorite
wire_tags(tags, favorite) == collect(tags) \cup (IF favorite THEN {"favorite"} ELSE {})

\* ApiMediaItem::into_media_item; fresh is the identifier Uuid::new_v4() draws
into_media_item(self, fresh) ==
    LET id == wire_id(self.id, fresh)
        progress == [current |-> self.progress, total |-> self.total_episodes]
        media_type == wire_media_type(self.media_type, self.status, progress)
        built == MediaItem(id.val, self.title, media_type.val, None, None,
                           IF IsSome(self.external_id)
                           THEN parse_u32_ok(Unwrap(self.external_id)) ELSE None,
                           self.poster_url, self.source,
                           wire_tags(self.tags, self.favorite))
        scored == IF IsSome(self.score) THEN set_score(built, Unwrap(self.score))
                  ELSE built
    IN IF ~id.ok THEN id
       ELSE IF ~media_type.ok THEN media_type
       ELSE Ok(IF IsSome(self.global_score)
               THEN set_global_score(scored, Unwrap(self.global_score))
               ELSE scored)

----------------------------------------------------------------------------
(* infra/database.rs: a row of media_items.  A NULL column is None. *)

\* serde_json::to_string(&HashSet<String>): a JSON array of the tags, in the order
\* the set is iterated
to_json(iter) == [form |-> "array", elems |-> iter]

\* a reader of the tags column that keeps whatever elements it can make out
from_json_lossy(t) == collect(t.elems)

\* row.get::<String>(13).unwrap_or_else(|_| "[]".into()), then
\* serde_json::from_str::<HashSet<String>>(..).unwrap_or_default()
from_json_or_default(t) == IF t.form = "array" THEN collect(t.elems) ELSE {}

\* i64 as u8: the low eight bits
as_u8(i) == i % 256

\* i64 as u32: the low 32 bits.  Every integer a row holds here was bound from a u32,
\* and on those (0 .. 2^32 - 1) the cast is the value itself.
as_u32(i) == i

watch_str(s) ==
    CASE s = "WatchStatus::Watching" -> "watching"
      [] s = "WatchStatus::PlanToWatch" -> "plan_to_watch"
      [] s = "WatchStatus::Completed" -> "completed"
      [] s = "WatchStatus::OnHold" -> "on_hold"
      [] s = "WatchStatus::Dropped" -> "dropped"

read_str(s) ==
    CASE s = "ReadStatus::Reading" -> "reading"
      [] s = "ReadStatus::PlanToRead" -> "plan_to_read"
      [] s = "ReadStatus::Completed" -> "completed"
      [] s = "ReadStatus::OnHold" -> "on_hold"
      [] s = "ReadStatus::Dropped" -> "dropped"

readable_str(k) ==
    CASE k = "ReadableKind::Book" -> "book"
      [] k = "ReadableKind::WebNovel" -> "web_novel"
      [] k = "ReadableKind::LightNovel" -> "light_novel"
      [] k = "ReadableKind::Manga" -> "manga"
      [] k = "ReadableKind::Manhwa" -> "manhwa"
      [] k = "ReadableKind::Webtoon" -> "webtoon"

db_parse_watch_status(s) ==
    CASE s = Some("watching") -> "WatchStatus::Watching"
      [] s = Some("plan_to_watch") -> "WatchStatus::PlanToWatch"
      [] s = Some("completed") -> "WatchStatus::Completed"
      [] s = Some("on_hold") -> "WatchStatus::OnHold"
      [] s = Some("dropped") -> "WatchStatus::Dropped"
      [] OTHER -> "WatchStatus::PlanToWatch"

db_parse_read_status(s) ==
    CASE s = Some("reading") -> "ReadStatus::Reading"
      [] s = Some("plan_to_read") -> "ReadStatus::PlanToRead"
      [] s = Some("completed") -> "ReadStatus::Completed"
      [] s = Some("on_hold") -> "ReadStatus::OnHold"
      [] s = Some("dropped") -> "ReadStatus::Dropped"
      [] OTHER -> "ReadStatus::PlanToRead"

parse_readable_kind(s) ==
    CASE s = Some("book") -> "ReadableKind::Book"
      [] s = Some("web_novel") -> "ReadableKind::WebNovel"
      [] s = Some("light_novel") -> "ReadableKind::LightNovel"
      [] s = Some("manga") -> "ReadableKind::Manga"
      [] s = Some("manhwa") -> "ReadableKind::Manhwa"
      [] s = Some("webtoon") -> "ReadableKind::Webtoon"
      [] OTHER -> "ReadableKind::Book"

\* a decomposition that leaves the readable_kind column NULL
decompose_media_type_drops_kind(mt) ==
    CASE mt.tag = "Movie" -> <<"movie", None, Some(watch_str(mt.status)), None, 0, None>>
      [] mt.tag = "Series" ->
           <<"series", None, Some(watch_str(mt.status)), None,
             mt.progress.current, mt.progress.total>>
      [] mt.tag = "Readable" ->
           <<"readable", None, None, Some(read_str(mt.status)),
             mt.progress.current, mt.progress.total>>

\* a decomposition that writes a status into both status columns
decompose_media_type_both_status(mt) ==
    CASE mt.tag = "Movie" ->
           <<"movie", None, Some(watch_str(mt.status)), Some("plan_to_read"), 0, None>>
      [] mt.tag = "Series" ->
           <<"series", None, Some(watch_str(mt.status)), Some("plan_to_read"),
             mt.progress.current, mt.progress.total>>
      [] mt.tag = "Readable" ->
           <<"readable", Some(readable_str(mt.kind)), Some("plan_to_watch"),
             Some(read_str(mt.status)), mt.progress.current, mt.progress.total>>

\* (media_type, readable_kind, watch_status, read_status, cur, tot)
decompose_media_type(mt) ==
    CASE mt.tag = "Movie" -> <<"movie", None, Some(watch_str(mt.status)), None, 0, None>>
      [] mt.tag = "Series" ->
           <<"series", None, Some(watch_str(mt.status)), None,
             mt.progress.current, mt.progress.total>>
      [] mt.tag = "Readable" ->
           <<"readable", Some(readable_str(mt.kind)), None, Some(read_str(mt.status)),
             mt.progress.current, mt.progress.total>>

\* the fourteen values upsert_item and insert_item_in_tx bind, in column order; iter is
\* the order in which the tags are serialized
bind_params(it, iter) ==
    LET d == decompose_media_type(it.media_type)
    IN [id |-> uuid_to_string(it.id),
        title |-> it.title,
        media_type |-> d[1],
        readable_kind |-> d[2],
        watch_status |-> d[3],
        read_status |-> d[4],
        progress_cur |-> d[5],
        progress_tot |-> d[6],
        score |-> it.score,
        global_score |-> it.global_score,
        external_id |-> it.external_id,
        poster_url |-> it.poster_url,
        source |-> it.source,
        tags |-> to_json(iter)]

\* a kind step that takes an unknown media_type for a movie
row_media_type_defaults(r, progress) ==
    IF r.media_type = "series"
    THEN Ok(Series(progress, db_parse_watch_status(r.watch_status)))
    ELSE IF r.media_type = "readable"
    THEN Ok(Readable(parse_readable_kind(r.readable_kind), progress,
                     db_parse_read_status(r.read_status)))
    ELSE Ok(Movie(db_parse_watch_status(r.watch_status)))

\* match media_type_str.as_str() { ... other => return Err(Corruption(..)) }
row_media_type(r, progress) ==
    IF r.media_type = "movie"
    THEN Ok(Movie(db_parse_watch_status(r.watch_status)))
    ELSE IF r.media_type = "series"
    THEN Ok(Series(progress, db_parse_watch_status(r.watch_status)))
    ELSE IF r.media_type = "readable"
    THEN Ok(Readable(parse_readable_kind(r.readable_kind), progress,
                     db_parse_read_status(r.read_status)))
    ELSE Err("StorageError::Corruption", <<"Unknown media_type", r.media_type>>)

row_to_media_item(r) ==
    LET id == parse_str(r.id)
        progress == [current |-> as_u32(r.progress_cur),
                     total |-> {as_u32(t) : t \in r.progress_tot}]
        media_type == row_media_type(r, progress)
        tags == from_json_or_default(r.tags)
    IN IF ~id.ok THEN Err("StorageError::Corruption", <<"Invalid UUID", r.id>>)
       ELSE IF ~media_type.ok THEN media_type
       ELSE Ok(MediaItem(id.val, r.title, media_type.val,
                         {as_u8(x) : x \in r.score},
                         {as_u8(x) : x \in r.global_score},
                         {as_u32(e) : e \in r.external_id},
                         r.poster_url, r.source, tags))

----------------------------------------------------------------------------
(* The records the two mappings are applied to *)

\* the largest u8
U8Max == 255

\* where a record came from: entered by hand, or imported from a search result of a
\* provider (core/search.rs:37-44); MangaDex results carry no numeric external id
Provenance ==
    {[external_id |-> None, poster_url |-> None, source |-> None],
     [external_id |-> Some(7), poster_url |-> Some("https://img/p.jpg"), source |-> Some("anilist")],
     [external_id |-> Some(0), poster_url |-> None, source |-> Some("tmdb")],
     [external_id |-> None, poster_url |-> Some(""), source |-> Some("mangadex")]}

TagSets == SUBSET {"favorite", "scifi"}

\* every kind, status and progress, with every provenance and tag set
ShapeItems ==
    {MediaItem(1, "Dune", mt, None, Some(79), pv.external_id, pv.poster_url, pv.source, tags) :
        mt \in MediaItemType, pv \in Provenance, tags \in TagSets}

\* every value an Option<u8> score can hold, on one record of each kind
ScoredItems ==
    {MediaItem(MaxId, "Akira", mt, sc[1], sc[2], None, None, None, {"scifi"}) :
        mt \in {Movie("WatchStatus::Completed"),
                 Series([current |-> 1, total |-> None], "WatchStatus::Watching"),
                 Readable("ReadableKind::Manga", [current |-> 0, total |-> Some(MaxProgress)],
                          "ReadStatus::OnHold")},
        sc \in (Option(0..U8Max) \X {None, Some(100)}) \cup ({None, Some(0)} \X Option(0..U8Max))}

MappedItems == ShapeItems \cup ScoredItems

----------------------------------------------------------------------------
(* The wire mapping: a record is decomposed by From and recomposed by
   into_media_item *)

InitWire ==
    /\ item \in {Some(it) : it \in MappedItems}
    /\ before = None
    /\ op = "new"
    /\ prev = "new"
    /\ arg = None
    /\ ret = None
    /\ wire = None
    /\ row = None

\* ApiMediaItem::from(&item)
ToWire ==
    /\ IsSome(item)
    /\ \E iter \in Orders(Unwrap(item).tags) :
          wire' = Some(ApiMediaItem_from(Unwrap(item), iter))
    /\ before' = item
    /\ op' = "from"
    /\ prev' = op
    /\ ret' = wire'
    /\ UNCHANGED <<item, arg, row>>

\* wire.into_media_item(): the record it yields replaces item; an error leaves none
IntoMediaItem ==
    /\ IsSome(wire)
    /\ \E fresh \in Uuids :
          /\ ret' = Some(into_media_item(Unwrap(wire), fresh))
          /\ item' = IF Unwrap(ret').ok THEN Some(Unwrap(ret').val) ELSE None
    /\ before' = item
    /\ op' = "into_media_item"
    /\ prev' = op
    /\ wire' = None
    /\ UNCHANGED <<arg, row>>

NextWire == ToWire \/ IntoMediaItem

SpecWire == InitWire /\ [][NextWire]_vars

----------------------------------------------------------------------------
(* The row mapping: a record is written as a row and the row is read back *)

InitRow ==
    /\ item \in {Some(it) : it \in MappedItems}
    /\ before = None
    /\ op = "new"
    /\ prev = "new"
    /\ arg = None
    /\ ret = None
    /\ wire = None
    /\ row = None

\* db.upsert_item(&item), or insert_item_in_tx(&tx, &item): the row that is written
WriteRow ==
    /\ IsSome(item)
    /\ \E iter \in Orders(Unwrap(item).tags) :
          row' = Some(bind_params(Unwrap(item), iter))
    /\ before' = item
    /\ op' = "upsert_item"
    /\ prev' = op
    /\ ret' = None
    /\ UNCHANGED <<item, arg, wire>>

\* row_to_media_item(&row): the record it yields replaces item; an error leaves none
ReadRow ==
    /\ IsSome(row)
    /\ ret' = Some(row_to_media_item(Unwrap(row)))
    /\ item' = IF Unwrap(ret').ok THEN Some(Unwrap(ret').val) ELSE None
    /\ before' = item
    /\ op' = "row_to_media_item"
    /\ prev' = op
    /\ row' = None
    /\ UNCHANGED <<arg, wire>>

NextRow == WriteRow \/ ReadRow

SpecRow == InitRow /\ [][NextRow]_vars

----------------------------------------------------------------------------
(* Claims about core/models.rs, checked under SpecModel *)

Now == Unwrap(item)
Was == Unwrap(before)
Completed(tag) == IF tag = "Readable" THEN "ReadStatus::Completed" ELSE "WatchStatus::Completed"

\* C3 as stated: after force_complete on a Series or Readable record, whatever current
\* and total were (absent, 0 or positive), the progress satisfies is_finished().
C3_AlwaysFinished ==
    (op = "force_complete" /\ HasProgress(Now)) => is_finished(Now.media_type.progress)

\* C3 amended: after force_complete on a Series or Readable record the progress
\* satisfies is_finished() for every current and total, except when total was 0, or
\* total was absent and current was 0: then the progress becomes 0 of 0 and
\* is_finished() is false.
C3_FinishedUnlessZero ==
    (op = "force_complete" /\ HasProgress(Now)) =>
        LET p == Was.media_type.progress
            zero == p.total = Some(0) \/ (p.total = None /\ p.current = 0)
        IN /\ ~zero => is_finished(Now.media_type.progress)
           /\ zero => /\ ~is_finished(Now.media_type.progress)
                       /\ Now.media_type.progress = [current |-> 0, total |-> Some(0)]

C3_Witness ==
    /\ op = "force_complete"
    /\ HasProgress(Now)
    /\ Was.media_type.progress = [current |-> MaxProgress, total |-> None]
    /\ is_finished(Now.media_type.progress)

\* C4: force_complete is idempotent: a second application in a row leaves the record
\* exactly as the first application left it, for every kind.
C4_Idempotent ==
    (op = "force_complete" /\ prev = "force_complete") => Now = Was

C4_Witness ==
    /\ op = "force_complete"
    /\ prev = "force_complete"
    /\ Now.media_type.tag = "Readable"
    /\ Now.media_type.progress = [current |-> 1, total |-> Some(1)]

\* C5: force_complete sets the status to the kind's Completed value; for Series and
\* Readable an absent total becomes current (current unchanged) and a present total
\* is kept while current becomes that total; for a Movie only the status changes.
\* id, title, scores, external id, poster URL, source, tags and the readable
\* sub-kind are unchanged for every kind.
C5_Frame ==
    op = "force_complete" =>
        LET a == Now.media_type
            b == Was.media_type
        IN /\ a.tag = b.tag
           /\ a.status = Completed(b.tag)
           /\ b.tag = "Movie" => a = [b EXCEPT !.status = "WatchStatus::Completed"]
           /\ b.tag = "Readable" => a.kind = b.kind
           /\ (HasProgress(Was) /\ b.progress.total = None) =>
                  /\ a.progress.total = Some(b.progress.current)
                  /\ a.progress.current = b.progress.current
           /\ (HasProgress(Was) /\ b.progress.total # None) =>
                  /\ a.progress.total = b.progress.total
                  /\ a.progress.current = Unwrap(b.progress.total)
           /\ Now.id = Was.id
           /\ Now.title = Was.title
           /\ Now.score = Was.score
           /\ Now.global_score = Was.global_score
           /\ Now.external_id = Was.external_id
           /\ Now.poster_url = Was.poster_url
           /\ Now.source = Was.source
           /\ Now.tags = Was.tags

C5_Witness ==
    /\ op = "force_complete"
    /\ Was.media_type = Readable("ReadableKind::Manga", [current |-> 2, total |-> None], "ReadStatus::Reading")
    /\ Now.media_type = Readable("ReadableKind::Manga", [current |-> 2, total |-> Some(2)], "ReadStatus::Completed")
    /\ Now.tags = {"favorite", "scifi"}

\* C6: is_completed is true exactly when the status is the kind's Completed value, or
\* the record is a Series or Readable whose progress is finished (total present,
\* total > 0, current >= total); for a Movie only the status counts.
C6_IsCompleted ==
    op = "is_completed" =>
        LET mt == Now.media_type
        IN Unwrap(ret) <=>
              \/ mt.status = Completed(mt.tag)
              \/ /\ mt.tag # "Movie"
                 /\ mt.progress.total # None
                 /\ Unwrap(mt.progress.total) > 0
                 /\ mt.progress.current >= Unwrap(mt.progress.total)

C6_Witness ==
    /\ op = "is_completed"
    /\ Now.media_type.tag = "Series"
    /\ Now.media_type.status = "WatchStatus::Watching"
    /\ Now.media_type.progress = [current |-> 2, total |-> Some(1)]
    /\ ret = Some(TRUE)

\* C7: is_finished() is true exactly when total is present, total > 0 and
\* current >= total; it is false when total is absent or 0.
C7_IsFinished ==
    op = "is_finished" =>
        LET p == Now.media_type.progress
        IN /\ Unwrap(ret) <=> (\E t \in p.total : t > 0 /\ p.current >= t)
           /\ (p.total = None \/ p.total = Some(0)) => ret = Some(FALSE)

C7_Witness ==
    /\ op = "is_finished"
    /\ Now.media_type.progress = [current |-> 0, total |-> Some(0)]
    /\ ret = Some(FALSE)

\* C8: percent() is absent when total is absent, 0 when total is 0, and otherwise
\* 100 x current / total, unclamped: at most 100 when current <= total and above 100
\* when current > total.
C8_Percent ==
    op = "percent" =>
        LET p == Now.media_type.progress
            r == Unwrap(ret)
        IN /\ p.total = None => r = None
           /\ p.total = Some(0) => (r # None /\ Unwrap(r).num = 0)
           /\ \A t \in p.total : t > 0 =>
                  /\ r # None
                  /\ Unwrap(r).num * t = 100 * p.current * Unwrap(r).den
                  /\ p.current <= t => Unwrap(r).num <= 100 * Unwrap(r).den
                  /\ p.current > t => Unwrap(r).num > 100 * Unwrap(r).den

C8_Witness ==
    /\ op = "percent"
    /\ Now.media_type.progress = [current |-> 2, total |-> Some(1)]
    /\ ret = Some(Some(Ratio(200, 1)))

----------------------------------------------------------------------------
(* The score codec of core/models.rs, applied to every input of two decimals *)

\* the f32 inputs: every number of two decimals from below 0.0 to above 10.0, the
\* infinities and NaN (all of which str::parse::<f32> produces)
ScoreInputs ==
    {Num(k) : k \in (0 - MaxOver)..(10 * Unit + MaxOver)} \cup {NaN, Inf(1), Inf(0 - 1)}

ScoreItems ==
    {new(1, "Dune", Movie("WatchStatus::PlanToWatch")),
     Rich(MaxId, "Akira", Series([current |-> 1, total |-> None], "WatchStatus::Watching"))}

InitScore ==
    /\ item \in {Some(it) : it \in ScoreItems}
    /\ before = None
    /\ op = "new"
    /\ prev = "new"
    /\ arg = None
    /\ ret = None
    /\ wire = None
    /\ row = None

\* item.set_score(x), on a record no operation was applied to yet
SetScore(x) ==
    /\ op = "new"
    /\ item' = Some(set_score(Unwrap(item), x))
    /\ before' = item
    /\ op' = "set_score"
    /\ prev' = op
    /\ arg' = Some(x)
    /\ ret' = None
    /\ UNCHANGED <<wire, row>>

\* item.set_global_score(x), on a record no operation was applied to yet
SetGlobalScore(x) ==
    /\ op = "new"
    /\ item' = Some(set_global_score(Unwrap(item), x))
    /\ before' = item
    /\ op' = "set_global_score"
    /\ prev' = op
    /\ arg' = Some(x)
    /\ ret' = None
    /\ UNCHANGED <<wire, row>>

\* item.get_score_display()
GetScoreDisplay ==
    /\ ret' = Some(get_score_display(Unwrap(item)))
    /\ before' = item
    /\ op' = "get_score_display"
    /\ prev' = op
    /\ UNCHANGED <<item, arg, wire, row>>

\* item.get_global_score_display()
GetGlobalScoreDisplay ==
    /\ ret' = Some(get_global_score_display(Unwrap(item)))
    /\ before' = item
    /\ op' = "get_global_score_display"
    /\ prev' = op
    /\ UNCHANGED <<item, arg, wire, row>>

NextScore ==
    \/ \E x \in ScoreInputs : SetScore(x)
    \/ \E x \in ScoreInputs : SetGlobalScore(x)
    \/ GetScoreDisplay
    \/ GetGlobalScoreDisplay

SpecScore == InitScore /\ [][NextScore]_vars

----------------------------------------------------------------------------
(* Claims about the score codec, checked under SpecScore *)

\* the integer nearest to 10 x c / Unit for a clamped input c, halves upwards
IsNearest(n, c) == 2 * 10 * c - Unit < 2 * n * Unit /\ 2 * n * Unit <= 2 * 10 * c + Unit

Stored == IF op = "set_score" THEN Unwrap(Now.score) ELSE Unwrap(Now.global_score)

\* C9: set_score and set_global_score accept every input and store
\* round(10 x clamp(input, 0.0, 10.0)): an input below 0 stores 0, an input above 10
\* stores 100, and nothing else of the record changes.
C9_SetScoreClamps ==
    (op \in {"set_score", "set_global_score"} /\ Unwrap(arg).cls # "nan") =>
        LET x == Unwrap(arg)
            below == x.v < 0
            above == IF x.cls = "inf" THEN x.v > 0 ELSE x.v > 10 * Unit
        IN /\ below => Stored = 0
           /\ above => Stored = 100
           /\ (~below /\ ~above) => IsNearest(Stored, x.v)
           /\ op = "set_score" => Now = [Was EXCEPT !.score = Some(Stored)]
           /\ op = "set_global_score" => Now = [Was EXCEPT !.global_score = Some(Stored)]

C9_Witness ==
    /\ op = "set_global_score"
    /\ arg = Some(Num(10 * Unit + MaxOver))
    /\ Now.global_score = Some(100)

\* C10: for every score s in [0,10], get_score_display after set_score(s) is within
\* 0.05 of s.
C10_RoundTripPrecision ==
    (op = "get_score_display" /\ prev = "set_score"
        /\ Unwrap(arg).cls = "num" /\ Unwrap(arg).v \in 0..(10 * Unit)) =>
        LET s == Unwrap(arg).v
            d == Unwrap(Unwrap(ret)).v
        IN 20 * (d - s) <= Unit /\ 20 * (s - d) <= Unit

C10_Witness ==
    /\ op = "get_score_display"
    /\ prev = "set_score"
    /\ arg = Some(Num(995))
    /\ ret = Some(Some(Num(10 * Unit)))

----------------------------------------------------------------------------
(* Claims about the wire mapping, checked under SpecWire *)

ScoreInRange(o) == \A x \in o : x \in 0..100

\* C1: a record whose scores lie in [0,100], decomposed with ApiMediaItem::from and
\* recomposed with into_media_item, comes back with the same kind (and readable
\* sub-kind), the same status, the same personal and global score and the same tag
\* set, whatever its progress, tags and source.
C1_WireRoundTrip ==
    (op = "into_media_item" /\ prev = "from"
        /\ ScoreInRange(Was.score) /\ ScoreInRange(Was.global_score)) =>
        /\ Unwrap(ret).ok
        /\ Now.media_type.tag = Was.media_type.tag
        /\ Was.media_type.tag = "Readable" => Now.media_type.kind = Was.media_type.kind
        /\ Now.media_type.status = Was.media_type.status
        /\ Now.score = Was.score
        /\ Now.global_score = Was.global_score
        /\ Now.tags = Was.tags

C1_Witness ==
    /\ op = "into_media_item"
    /\ prev = "from"
    /\ Was.media_type.tag = "Readable"
    /\ Was.media_type.kind = "ReadableKind::LightNovel"
    /\ Was.media_type.status = "ReadStatus::OnHold"
    /\ Was.tags = {"favorite", "scifi"}
    /\ Was.global_score = Some(79)
    /\ Now.global_score = Some(79)
    /\ Now.media_type.kind = "ReadableKind::LightNovel"

----------------------------------------------------------------------------
(* Claims about the row mapping, checked under SpecRow *)

\* C2: a record of any of the three kinds (Readable with any sub-kind), written as a
\* row and read back with row_to_media_item, comes back equal in every field.
C2_RowRoundTrip ==
    (op = "row_to_media_item" /\ prev = "upsert_item") =>
        /\ Unwrap(ret).ok
        /\ Now = Was

C2_Witness ==
    /\ op = "row_to_media_item"
    /\ prev = "upsert_item"
    /\ Was.media_type = Readable("ReadableKind::Webtoon", [current |-> 2, total |-> None],
                                  "ReadStatus::Dropped")
    /\ Was.source = Some("mangadex")
    /\ Was.tags = {"favorite", "scifi"}
    /\ Now = Was

----------------------------------------------------------------------------
(* The search providers: the global score a search result carries, and the import of
   a result (core/search.rs) *)

\* a mapping of AniList's meanScore that forgets the cap at 100
anilist_score_uncapped(mean_score) ==
    IF IsSome(mean_score) THEN Some(as_u8(Unwrap(mean_score))) ELSE None

\* media.mean_score.map(|s| s.min(100) as u8), mean_score an Option<u32>
anilist_score(mean_score) ==
    IF IsSome(mean_score)
    THEN Some(as_u8(IF Unwrap(mean_score) < 100 THEN Unwrap(mean_score) ELSE 100))
    ELSE None

\* vote.filter(|&v| v > 0.0).map(|v| (v.clamp(0.0, 10.0) * 10.0).round() as u8)
vote_to_score(vote) ==
    IF IsSome(vote) /\ Unwrap(vote).v > 0
    THEN Some(round(clamp(Unwrap(vote)).v * 10, Unit) % 256)
    ELSE None

\* doc.ratings_average.map(|r| ((r.clamp(0.0, 5.0) / 5.0) * 100.0).round() as u8)
openlibrary_score(ratings_average) ==
    LET r == Unwrap(ratings_average).v
        c == IF r < 0 THEN 0 ELSE IF r > 5 * Unit THEN 5 * Unit ELSE r
    IN IF IsSome(ratings_average) THEN Some(round(c * 100, 5 * Unit) % 256) ELSE None

\* rating.bayesian: .map(|r| (r.clamp(0.0, 10.0) * 10.0).round() as u8)
mangadex_score(bayesian) ==
    IF IsSome(bayesian)
    THEN Some(round(clamp(Unwrap(bayesian)).v * 10, Unit) % 256)
    ELSE None

SearchResult(title, media_type, global_score, external_id, poster_url, source) ==
    [title |-> title, media_type |-> media_type, global_score |-> global_score,
     external_id |-> external_id, poster_url |-> poster_url, source |-> source]

\* SearchResult::into_media_item; fresh is the identifier MediaItem::new draws
SearchResult_into_media_item(self, fresh) ==
    [new(fresh, self.title, self.media_type) EXCEPT
        !.global_score = self.global_score,
        !.external_id = self.external_id,
        !.poster_url = self.poster_url,
        !.source = Some(self.source)]

\* the u32 an AniList answer can carry as meanScore, beyond the documented 0..100
MeanScores == {0, 79, 100, 101, U8Max, U8Max + 1, 300}

\* the finite f64 a provider's answer can carry as a rating (JSON has no NaN)
Ratings == {Num(k) : k \in {0 - 50, 0, 5, 395, 5 * Unit, 785, 10 * Unit, 10 * Unit + MaxOver}}

\* the results the four providers build
SearchResults ==
    {SearchResult("Akira", Series([current |-> 0, total |-> Some(MaxProgress)], "WatchStatus::PlanToWatch"),
                  anilist_score(m), Some(7), Some("https://img/p.jpg"), "anilist") :
        m \in Option(MeanScores)}
    \cup {SearchResult("Dune", Movie("WatchStatus::PlanToWatch"),
                       vote_to_score(v), Some(0), None, "tmdb") : v \in Option(Ratings)}
    \cup {SearchResult("Emma", Readable("ReadableKind::Book", [current |-> 0, total |-> None], "ReadStatus::PlanToRead"),
                       openlibrary_score(r), Some(7), None, "openlibrary") : r \in Option(Ratings)}
    \cup {SearchResult("Solo", Readable("ReadableKind::Manhwa", [current |-> 0, total |-> None], "ReadStatus::PlanToRead"),
                       mangadex_score(b), None, Some(""), "mangadex") : b \in Option(Ratings)}

----------------------------------------------------------------------------
(* One record of the archive through its life: added by hand or imported from a
   search result, scored, replaced by a client's payload, saved and loaded *)

\* the kinds a hand-made record is given here
ArchiveKinds ==
    {Movie("WatchStatus::PlanToWatch"),
     Series([current |-> 1, total |-> Some(MaxProgress)], "WatchStatus::Watching"),
     Readable("ReadableKind::Manga", [current |-> 0, total |-> None], "ReadStatus::PlanToRead")}

\* the numbers typed at the score prompt or sent as a score by a client
ArchiveScores ==
    {Num(0 - 50), Num(0), Num(845), Num(10 * Unit), Num(10 * Unit + MaxOver), Inf(1), Inf(0 - 1)}

\* the numbers typed at the score prompt: str::parse::<f32> also reads "NaN"
PromptScores == ArchiveScores \cup {NaN}

\* the payloads of POST /api/items and PUT /api/items/:id, as far as scores go
ScorePayloads ==
    {ApiMediaItem(EmptyText, "Dune", "movie", "completed", s, g, 0, None, None, None, None, <<>>, FALSE) :
        s \in Option(ArchiveScores), g \in {None, Some(Num(10 * Unit + MaxOver))}}
    \cup {ApiMediaItem(EmptyText, "Dune", "movie", "completed", None, g, 0, None, None, None, None, <<>>, FALSE) :
            g \in Option(ArchiveScores)}

InitArchive ==
    /\ item = None
    /\ before = None
    /\ op = "new"
    /\ prev = "new"
    /\ arg = None
    /\ ret = None
    /\ wire = None
    /\ row = None

\* add_item_flow: MediaItem::new, pushed on the archive
AddItem ==
    /\ item = None
    /\ \E fresh \in Uuids, mt \in ArchiveKinds : item' = Some(new(fresh, "Dune", mt))
    /\ op' = "add_item"
    /\ UNCHANGED <<before, prev, arg, ret, wire, row>>

\* search_flow: result.into_media_item(), pushed on the archive
ImportResult ==
    /\ item = None
    /\ \E fresh \in Uuids, result \in SearchResults :
          item' = Some(SearchResult_into_media_item(result, fresh))
    /\ op' = "import"
    /\ UNCHANGED <<before, prev, arg, ret, wire, row>>

\* set_score_flow: self.archive[idx].set_score(score)
ArchiveSetScore ==
    /\ IsSome(item)
    /\ \E x \in PromptScores : item' = Some(set_score(Unwrap(item), x))
    /\ op' = "set_score"
    /\ UNCHANGED <<before, prev, arg, ret, wire, row>>

\* create_item and update_item: payload.into_media_item(), then upsert_item; an Err
\* is answered with 400 and nothing is stored
PutPayload ==
    /\ \E fresh \in Uuids, payload \in ScorePayloads :
          LET r == into_media_item(payload, fresh)
          IN item' = IF r.ok THEN Some(r.val) ELSE item
    /\ op' = "into_media_item"
    /\ UNCHANGED <<before, prev, arg, ret, wire, row>>

\* save_all / upsert_item: the record's row replaces the stored one
SaveItem ==
    /\ IsSome(item)
    /\ \E iter \in Orders(Unwrap(item).tags) : row' = Some(bind_params(Unwrap(item), iter))
    /\ op' = "save_all"
    /\ UNCHANGED <<item, before, prev, arg, ret, wire>>

\* load_all: the stored row is read back and replaces the record in memory
LoadItem ==
    /\ IsSome(row)
    /\ LET r == row_to_media_item(Unwrap(row))
       IN item' = IF r.ok THEN Some(r.val) ELSE None
    /\ op' = "load_all"
    /\ UNCHANGED <<before, prev, arg, ret, wire, row>>

NextArchive ==
    \/ AddItem
    \/ ImportResult
    \/ ArchiveSetScore
    \/ PutPayload
    \/ SaveItem
    \/ LoadItem

SpecArchive == InitArchive /\ [][NextArchive]_vars

\* C11: whenever a record of the archive has a personal or a global score, that score
\* lies in 0..100, whatever sequence of hand-made additions, search imports, score
\* prompts, client payloads, saves and loads produced the record; and the scores of
\* every row the program wrote lie in 0..100 too.
C11_ScoresInRange ==
    /\ \A it \in item : ScoreInRange(it.score) /\ ScoreInRange(it.global_score)
    /\ \A r \in row : ScoreInRange(r.score) /\ ScoreInRange(r.global_score)

\* an AniList result whose meanScore was capped, scored at the prompt, saved and loaded
C11_Witness ==
    /\ op = "load_all"
    /\ IsSome(item)
    /\ Now.source = Some("anilist")
    /\ Now.global_score = Some(100)
    /\ Now.score = Some(85)
    /\ Unwrap(row).global_score = Some(100)

----------------------------------------------------------------------------
(* The wire mapping applied to what a client sends: any strings, any flag *)

\* the media_type strings a client sends: the nine known ones and others
ClientMediaTypes == WireMediaTypes \cup {"dvd", "", "Movie"}

\* the status strings a client sends: the seven known ones and others
ClientStatuses ==
    {"watching", "reading", "plan_to_watch", "plan_to_read", "completed", "on_hold",
     "dropped", "", "finished", "Completed"}

ClientSources == {None, Some("anilist"), Some("tmdb")}

ClientTags ==
    {<<>>, <<"favorite">>, <<"scifi">>, <<"scifi", "scifi">>, <<"scifi", "favorite">>}

ClientTitles == {"", "Dune"}

\* a payload with the fields no claim depends on fixed
Payload(id, title, media_type, status, source, tags, favorite) ==
    ApiMediaItem(id, title, media_type, status, Some(Num(845)), None, 1, Some(MaxProgress),
                 None, source, None, tags, favorite)

\* the payloads of POST /api/items and PUT /api/items/:id
ClientItems ==
    {Payload(EmptyText, "Dune", mt, st, src, <<>>, FALSE) :
        mt \in ClientMediaTypes, st \in ClientStatuses, src \in ClientSources}
    \cup {Payload(id, title, mt, "completed", None, <<"scifi">>, FALSE) :
            id \in IdText, title \in ClientTitles, mt \in {"movie", "anime", "dvd"}}
    \cup {Payload(EmptyText, title, mt, "on_hold", None, tags, fav) :
            title \in ClientTitles, mt \in {"movie", "series", "web_novel"},
            tags \in ClientTags, fav \in BOOLEAN}

InitClient ==
    /\ item = None
    /\ before = None
    /\ op = "new"
    /\ prev = "new"
    /\ arg = None
    /\ ret = None
    /\ wire \in {Some(api) : api \in ClientItems}
    /\ row = None

\* payload.into_media_item(): arg keeps the payload, item the record it yields (none
\* on an error)
ClientIntoMediaItem ==
    /\ IsSome(wire)
    /\ \E fresh \in Uuids :
          /\ ret' = Some(into_media_item(Unwrap(wire), fresh))
          /\ item' = IF Unwrap(ret').ok THEN Some(Unwrap(ret').val) ELSE None
    /\ before' = item
    /\ op' = "into_media_item"
    /\ prev' = op
    /\ arg' = wire
    /\ wire' = None
    /\ UNCHANGED row

NextClient == ClientIntoMediaItem \/ ToWire

SpecClient == InitClient /\ [][NextClient]_vars

\* the payload the last into_media_item was applied to, its result, and the payload
\* the last From produced
Sent == Unwrap(arg)
Result == Unwrap(ret)
Answer == Unwrap(wire)

\* an id string recomposition accepts: the empty one or one that spells an identifier
IdAccepted(t) == t = EmptyText \/ t.form \in {"hyphenated", "simple", "urn", "braced", "upper"}

\* C12: a payload whose media_type is "series" or "anime" (and whose id is readable)
\* is recomposed to a Series; a Series is decomposed to "anime" exactly when its source
\* is "anilist" and to "series" otherwise; so after wire -> domain -> wire the label
\* depends on the source alone, not on the label that was sent.
C12_SeriesLabel ==
    /\ (op = "into_media_item" /\ Sent.media_type \in {"series", "anime"}
          /\ IdAccepted(Sent.id)) =>
          Result.ok /\ Now.media_type.tag = "Series"
    /\ (op = "from" /\ Was.media_type.tag = "Series") =>
          Answer.media_type = (IF Was.source = Some("anilist") THEN "anime" ELSE "series")
    /\ (op = "from" /\ prev = "into_media_item" /\ Sent.media_type \in {"series", "anime"}) =>
          Answer.media_type = (IF Sent.source = Some("anilist") THEN "anime" ELSE "series")

\* "series" sent with source anilist comes back as "anime"
C12_Witness ==
    /\ op = "from"
    /\ prev = "into_media_item"
    /\ Sent.media_type = "series"
    /\ Sent.source = Some("anilist")
    /\ Answer.media_type = "anime"

\* C13: recomposing a payload whose media_type is none of the nine known strings
\* yields no record; when its id is accepted, the error is the unknown-media-type one
\* and carries the string that was sent.
C13_UnknownMediaType ==
    (op = "into_media_item" /\ Sent.media_type \notin
        {"movie", "series", "anime", "manga", "manhwa", "webtoon", "book", "light_novel",
         "web_novel"}) =>
        /\ ~Result.ok
        /\ item = None
        /\ IdAccepted(Sent.id) =>
              Result.err = "Unknown media_type" /\ Result.detail = Sent.media_type

C13_Witness ==
    /\ op = "into_media_item"
    /\ Sent.media_type = "dvd"
    /\ Sent.id = EmptyText
    /\ Result = Err("Unknown media_type", "dvd")
    /\ item = None

KnownKind == Sent.media_type \in WireMediaTypes

\* C14: recomposing a payload of a known media_type succeeds with some identifier when
\* its id is empty, succeeds and keeps the identifier when its id spells one, and
\* otherwise fails with the invalid-identifier error and yields no record (which it
\* does for a payload of an unknown media_type too).
C14_Identifier ==
    op = "into_media_item" =>
        /\ (KnownKind /\ Sent.id = EmptyText) => Result.ok /\ Now.id \in Uuids
        /\ (KnownKind /\ Sent.id # EmptyText /\ IdAccepted(Sent.id)) =>
              Result.ok /\ Now.id = Sent.id.uuid
        /\ ~IdAccepted(Sent.id) =>
              ~Result.ok /\ Result.err = "Invalid UUID" /\ item = None

\* an identifier in upper case is kept
C14_Witness ==
    /\ op = "into_media_item"
    /\ Sent.id = [form |-> "upper", uuid |-> MaxId]
    /\ Result.ok
    /\ Now.id = MaxId

\* the same, for an empty id: an identifier was drawn
C14_WitnessFresh ==
    /\ op = "into_media_item"
    /\ Sent.id = EmptyText
    /\ Result.ok
    /\ Now.id = MaxId

\* the status a status string stands for, as a name both families share
StatusName(st) ==
    CASE st \in {"watching", "reading"} -> "in progress"
      [] st \in {"plan_to_watch", "plan_to_read"} -> "plan"
      [] st = "completed" -> "completed"
      [] st = "on_hold" -> "on hold"
      [] st = "dropped" -> "dropped"
      [] OTHER -> "plan"

\* the status of that name in a kind's family
StatusOf(tag, name) ==
    IF tag = "Readable"
    THEN CASE name = "in progress" -> "ReadStatus::Reading"
           [] name = "plan" -> "ReadStatus::PlanToRead"
           [] name = "completed" -> "ReadStatus::Completed"
           [] name = "on hold" -> "ReadStatus::OnHold"
           [] name = "dropped" -> "ReadStatus::Dropped"
    ELSE CASE name = "in progress" -> "WatchStatus::Watching"
           [] name = "plan" -> "WatchStatus::PlanToWatch"
           [] name = "completed" -> "WatchStatus::Completed"
           [] name = "on hold" -> "WatchStatus::OnHold"
           [] name = "dropped" -> "WatchStatus::Dropped"

\* C15: recomposing a payload of a known media_type and an accepted id succeeds
\* whatever the status string is, and the record's status is the one the string
\* stands for in the kind's family: in progress for watching/reading, plan for
\* plan_to_watch/plan_to_read, the same-named one for completed/on_hold/dropped, and
\* plan for every other string.
C15_StatusLenient ==
    (op = "into_media_item" /\ KnownKind /\ IdAccepted(Sent.id)) =>
        /\ Result.ok
        /\ Now.media_type.status = StatusOf(Now.media_type.tag, StatusName(Sent.status))

\* a movie sent as "reading" is being watched
C15_Witness ==
    /\ op = "into_media_item"
    /\ Sent.media_type = "movie"
    /\ Sent.status = "reading"
    /\ Result.ok
    /\ Now.media_type = Movie("WatchStatus::Watching")

\* an unknown status on a readable falls back to the plan
C15_WitnessFallback ==
    /\ op = "into_media_item"
    /\ Sent.media_type = "light_novel"
    /\ Sent.status = "finished"
    /\ Result.ok
    /\ Now.media_type.status = "ReadStatus::PlanToRead"

\* C16: the favorite flag From writes is the membership of "favorite" in the record's
\* tags; a payload with favorite = true is recomposed to a record tagged "favorite";
\* so after into_media_item and From the flag is true exactly when the payload had
\* favorite = true or listed the tag "favorite".
C16_FavoriteDerived ==
    /\ op = "from" => Answer.favorite = ("favorite" \in Was.tags)
    /\ (op = "into_media_item" /\ Result.ok /\ Sent.favorite) => "favorite" \in Now.tags
    /\ (op = "from" /\ prev = "into_media_item") =>
          Answer.favorite =
              (Sent.favorite \/ \E i \in 1..Len(Sent.tags) : Sent.tags[i] = "favorite")

\* the flag alone puts the tag in
C16_Witness ==
    /\ op = "from"
    /\ prev = "into_media_item"
    /\ Sent.favorite
    /\ Sent.tags = <<"scifi">>
    /\ Answer.favorite
    /\ Was.tags = {"scifi", "favorite"}

\* favorite = false does not take the tag out
C16_WitnessKept ==
    /\ op = "from"
    /\ prev = "into_media_item"
    /\ ~Sent.favorite
    /\ Sent.tags = <<"scifi", "favorite">>
    /\ Answer.favorite

\* C17 as the specification states it: recomposition rejects an empty title, so no
\* record it yields has one.
C17_TitleValidated ==
    op = "into_media_item" =>
        /\ Sent.title = "" => ~Result.ok
        /\ Result.ok => Now.title # ""

\* what into_media_item does: a payload with an empty title, a known media_type and an
\* accepted id is recomposed to a record with the empty title
C17_EmptyTitleAccepted ==
    (op = "into_media_item" /\ KnownKind /\ IdAccepted(Sent.id)) =>
        Result.ok /\ Now.title = Sent.title

C17_Witness ==
    /\ op = "into_media_item"
    /\ Sent.title = ""
    /\ Sent.media_type = "movie"
    /\ Result.ok
    /\ Now.title = ""

----------------------------------------------------------------------------
(* The row mapping applied to rows that something other than this program changed
   after they were written *)

StoredItems ==
    {MediaItem(1, "Dune", mt, Some(85), Some(79), pv.external_id, pv.poster_url, pv.source, tags) :
        mt \in ArchiveKinds, pv \in Provenance, tags \in TagSets}

\* media_type values the program never writes
BadMediaTypes == {"Movie", "", "anime", "book"}

\* id values that spell no identifier; the empty string is one of them here
BadIds == {EmptyText, JunkText}

\* tags values that are no JSON array of strings: a column that is missing or holds no
\* text, a truncated array, an array of numbers
BadTags ==
    {[form |-> "missing", elems |-> <<>>],
     [form |-> "truncated", elems |-> <<"scifi">>],
     [form |-> "numbers", elems |-> <<"1">>]}

InitStored ==
    /\ item \in {Some(it) : it \in StoredItems}
    /\ before = None
    /\ op = "new"
    /\ prev = "new"
    /\ arg = None
    /\ ret = None
    /\ wire = None
    /\ row = None

\* one column of the stored row is overwritten from outside
Tamper ==
    /\ IsSome(row)
    /\ \/ \E t \in BadMediaTypes : row' = Some([Unwrap(row) EXCEPT !.media_type = t])
       \/ \E t \in BadIds : row' = Some([Unwrap(row) EXCEPT !.id = t])
       \/ \E t \in BadTags : row' = Some([Unwrap(row) EXCEPT !.tags = t])
    /\ UNCHANGED <<item, before, op, prev, arg, ret, wire>>

\* row_to_media_item(&row): arg keeps the row that was read, item the record it yields
\* (none on an error)
ReadStoredRow ==
    /\ IsSome(row)
    /\ ret' = Some(row_to_media_item(Unwrap(row)))
    /\ item' = IF Unwrap(ret').ok THEN Some(Unwrap(ret').val) ELSE None
    /\ before' = item
    /\ op' = "row_to_media_item"
    /\ prev' = op
    /\ arg' = row
    /\ row' = None
    /\ UNCHANGED wire

NextStored == WriteRow \/ Tamper \/ ReadStoredRow

SpecStored == InitStored /\ [][NextStored]_vars

\* C18: reading a row whose media_type is none of movie, series, readable, or whose id
\* spells no identifier, fails with a Corruption error and yields no record; when the
\* id is readable the error carries the media_type that was found.
C18_RowStrict ==
    op = "row_to_media_item" =>
        /\ (Sent.media_type \notin {"movie", "series", "readable"}
              \/ Sent.id.form \in {"empty", "junk"}) =>
              ~Result.ok /\ Result.err = "StorageError::Corruption" /\ item = None
        /\ (Sent.media_type \notin {"movie", "series", "readable"}
              /\ Sent.id.form \notin {"empty", "junk"}) =>
              Result.detail = <<"Unknown media_type", Sent.media_type>>

C18_Witness ==
    /\ op = "row_to_media_item"
    /\ Sent.media_type = "anime"
    /\ Sent.id = uuid_to_string(1)
    /\ Result = Err("StorageError::Corruption", <<"Unknown media_type", "anime">>)
    /\ item = None

\* a row with a sound media_type and an unreadable id
C18_WitnessId ==
    /\ op = "row_to_media_item"
    /\ Sent.media_type = "readable"
    /\ Sent.id = JunkText
    /\ Result = Err("StorageError::Corruption", <<"Invalid UUID", JunkText>>)

\* C19: reading a row whose tags column is missing or is no JSON array of strings, and
\* whose id and media_type are sound, succeeds; the record has no tags and is otherwise
\* the record the row was written from.
C19_TagsLenient ==
    (op = "row_to_media_item" /\ Sent.tags.form # "array"
        /\ Sent.media_type \in {"movie", "series", "readable"}
        /\ Sent.id.form \notin {"empty", "junk"}) =>
        /\ Result.ok
        /\ Now.tags = {}
        /\ [Now EXCEPT !.tags = Was.tags] = Was

C19_Witness ==
    /\ op = "row_to_media_item"
    /\ Sent.tags = [form |-> "truncated", elems |-> <<"scifi">>]
    /\ Was.tags = {"favorite", "scifi"}
    /\ Was.media_type.tag = "Readable"
    /\ Result.ok
    /\ Now = [Was EXCEPT !.tags = {}]

----------------------------------------------------------------------------
(* Claims about the rows the program writes, checked under SpecRow *)

\* C20: every row upsert_item or save_all writes has, when its media_type is movie or
\* series, a watch_status and neither read_status nor readable_kind, and when it is
\* readable, a read_status and a readable_kind and no watch_status: exactly one of the
\* two status columns is set.
C20_Discriminator ==
    \A r \in row :
        /\ r.media_type \in {"movie", "series"} =>
              IsSome(r.watch_status) /\ r.read_status = None /\ r.readable_kind = None
        /\ r.media_type = "readable" =>
              IsSome(r.read_status) /\ IsSome(r.readable_kind) /\ r.watch_status = None
        /\ r.media_type \in {"movie", "series", "readable"}
        /\ IsSome(r.watch_status) # IsSome(r.read_status)

C20_Witness ==
    /\ op = "upsert_item"
    /\ Unwrap(row).media_type = "readable"
    /\ Unwrap(row).readable_kind = Some("webtoon")
    /\ Unwrap(row).read_status = Some("on_hold")
    /\ Unwrap(row).watch_status = None

----------------------------------------------------------------------------
(* infra/database.rs: the table media_items as a set of rows, and the operations on
   it.  In the specifications below row is the table as the connection sees it and
   item the archive, a sequence of records. *)

\* the ids of the rows of a table
Ids(rows) == {r.id : r \in rows}

\* a failed save that leaves the table as the statements so far made it
rollback_keeps(saved, working) == working

\* a Transaction dropped without commit: the table is as it was when it began
rollback(saved, working) == saved

\* INSERT INTO media_items: a row whose id is taken violates the primary key
insert_row(rows, r) ==
    IF r.id \in Ids(rows) THEN Err("StorageError::Database", "UNIQUE constraint failed")
    ELSE Ok(rows \cup {r})

\* a loader that skips the rows it cannot read
RECURSIVE load_rows_skips(_, _)
load_rows_skips(q, items) ==
    IF q = <<>> THEN Ok(items)
    ELSE IF ~row_to_media_item(Head(q)).ok THEN load_rows_skips(Tail(q), items)
    ELSE load_rows_skips(Tail(q), Append(items, row_to_media_item(Head(q)).val))

\* rows.next() until None, row_to_media_item(&row)? on each: q is the order in which
\* the query yields the rows
RECURSIVE load_rows(_, _)
load_rows(q, items) ==
    IF q = <<>> THEN Ok(items)
    ELSE IF ~row_to_media_item(Head(q)).ok THEN row_to_media_item(Head(q))
    ELSE load_rows(Tail(q), Append(items, row_to_media_item(Head(q)).val))

\* the elements of a sequence
Range(q) == {q[i] : i \in 1..Len(q)}

\* the records a table holds
Records(rows) == {row_to_media_item(r).val : r \in rows}

----------------------------------------------------------------------------
(* save_all, statement by statement, any of which can fail *)

\* the records of the archive: two versions of one record and two other records, one
\* of which shares its id with the first
SavedItems ==
    {new(1, "Dune", Movie("WatchStatus::PlanToWatch")),
     set_score(new(1, "Dune", Movie("WatchStatus::Completed")), Num(845)),
     new(MaxId, "Akira", Series([current |-> 1, total |-> Some(MaxProgress)], "WatchStatus::Watching")),
     [new(1, "Emma", Readable("ReadableKind::Book", [current |-> 0, total |-> None], "ReadStatus::Reading"))
         EXCEPT !.tags = {"scifi"}]}

\* the archives handed to save_all: up to two records
Snapshots == {<<>>} \cup {<<a>> : a \in SavedItems} \cup {<<a, b>> : a, b \in SavedItems}

\* the tables save_all and upsert_item find: at most one row for an id
Tables ==
    {rows \in SUBSET {bind_params(it, <<>>) : it \in {x \in SavedItems : x.tags = {}}} :
        \A r1, r2 \in rows : r1.id = r2.id => r1 = r2}

InitSave ==
    /\ item = <<>>
    /\ before = {}
    /\ op = "new"
    /\ prev = "new"
    /\ arg = <<>>
    /\ ret = None
    /\ wire = None
    /\ row \in Tables

\* self.conn.transaction(): arg is what is left to insert, before the table a
\* rollback restores
SaveBegin ==
    /\ op \in {"new", "returned"}
    /\ \E items \in Snapshots : item' = items /\ arg' = items
    /\ before' = row
    /\ op' = "transaction"
    /\ prev' = "save_all"
    /\ ret' = None
    /\ UNCHANGED <<wire, row>>

\* tx.execute("DELETE FROM media_items")
SaveDelete ==
    /\ op = "transaction"
    /\ row' = {}
    /\ op' = "deleted"
    /\ UNCHANGED <<item, before, prev, arg, ret, wire>>

\* insert_item_in_tx(&tx, item).await?: the next record's row is inserted, or the
\* insert fails and save_all returns, dropping the transaction
SaveInsert ==
    /\ op = "deleted"
    /\ arg # <<>>
    /\ \E iter \in Orders(Head(arg).tags) :
          LET r == insert_row(row, bind_params(Head(arg), iter))
          IN IF r.ok
             THEN row' = r.val /\ arg' = Tail(arg) /\ UNCHANGED <<op, ret>>
             ELSE /\ row' = rollback(before, row)
                  /\ ret' = Some(r)
                  /\ op' = "returned"
                  /\ UNCHANGED arg
    /\ UNCHANGED <<item, before, prev, wire>>

\* tx.commit()
SaveCommit ==
    /\ op = "deleted"
    /\ arg = <<>>
    /\ ret' = Some(Ok("()"))
    /\ op' = "returned"
    /\ UNCHANGED <<item, before, prev, arg, wire, row>>

\* the database fails at the statement that is next (the delete, an insert or the
\* commit): save_all returns the error, dropping the transaction
SaveFail ==
    /\ op \in {"transaction", "deleted"}
    /\ row' = rollback(before, row)
    /\ ret' = Some(Err("StorageError::Database", op))
    /\ op' = "returned"
    /\ UNCHANGED <<item, before, prev, arg, wire>>

NextSave == SaveBegin \/ SaveDelete \/ SaveInsert \/ SaveCommit \/ SaveFail

SpecSave == InitSave /\ [][NextSave]_vars

\* C21: when save_all has returned, the table holds exactly the records of the archive
\* it was given if it returned Ok, and exactly the rows it held before the call if it
\* returned an error, whichever statement failed; no table that was emptied or partly
\* refilled is left behind.
C21_SaveAtomic ==
    op = "returned" =>
        IF Result.ok
        THEN Records(row) = Range(item) /\ Cardinality(row) = Len(item)
        ELSE row = before

\* the second insert failed on a taken id after the delete and one insert went through
C21_Witness ==
    /\ op = "returned"
    /\ ~Result.ok
    /\ Result.detail = "UNIQUE constraint failed"
    /\ Len(item) = 2
    /\ Len(arg) = 1
    /\ Cardinality(before) = 2
    /\ row = before

\* a save that went through
C21_WitnessCommitted ==
    /\ op = "returned"
    /\ Result.ok
    /\ Len(item) = 2
    /\ Records(row) = Range(item)
    /\ row # before

----------------------------------------------------------------------------
(* infra/web.rs: the handlers of /api/items, one request after another.  arg is the
   request, ret the response, item the record handed to upsert_item (none when the
   request did not get that far), before the table the request found. *)

\* an upsert that inserts beside the row it should replace
upsert_appends(rows, r) == rows \cup {r}

\* INSERT OR REPLACE INTO media_items: the row replaces the one with its id, if any
upsert(rows, r) == {x \in rows : x.id # r.id} \cup {r}

\* DELETE FROM media_items WHERE id = ?1
delete_row(rows, id) == {x \in rows : x.id # id}

\* a body whose id is taken as it was sent
path_id_ignored(uuid, payload) == payload

\* payload.id = uuid.to_string()
path_id(uuid, payload) == [payload EXCEPT !.id = uuid_to_string(uuid)]

\* the bodies of POST and PUT: every kind of id, known and unknown media types
WebPayloads ==
    {Payload(id, "Dune", mt, st, None, <<>>, FALSE) :
        id \in {EmptyText, JunkText, uuid_to_string(1), uuid_to_string(MaxId)},
        mt \in {"movie", "anime", "dvd"},
        st \in {"completed"}}

\* the {id} segment of the path
WebPaths == {JunkText, uuid_to_string(1), uuid_to_string(MaxId), [form |-> "upper", uuid |-> 1]}

Request(handler, path, payload) == [handler |-> handler, path |-> path, payload |-> payload]

Response(status, body) == [status |-> status, body |-> body]

InitWeb ==
    /\ item = None
    /\ before = {}
    /\ op = "new"
    /\ prev = "new"
    /\ arg = None
    /\ ret = None
    /\ wire = None
    /\ row = {}

\* the tail of create_item and update_item: r is what into_media_item returned, fails
\* whether the database refuses the statement
StoreItem(r, status, fails) ==
    IF ~r.ok
    THEN ret' = Some(Response(400, r)) /\ item' = None /\ row' = row
    ELSE /\ item' = Some(r.val)
         /\ IF fails
            THEN ret' = Some(Response(500, "StorageError::Database")) /\ row' = row
            ELSE \E iter \in Orders(r.val.tags) :
                    /\ row' = upsert(row, bind_params(r.val, iter))
                    /\ ret' = Some(Response(status, ApiMediaItem_from(r.val, iter)))

\* POST /api/items
CreateItem ==
    /\ \E payload \in WebPayloads, fresh \in Uuids, fails \in BOOLEAN :
          /\ arg' = Some(Request("create_item", EmptyText, payload))
          /\ StoreItem(into_media_item(payload, fresh), 201, fails)
    /\ before' = row
    /\ op' = "create_item"
    /\ UNCHANGED <<prev, wire>>

\* PUT /api/items/{id}
UpdateItem ==
    /\ \E path \in WebPaths, payload \in WebPayloads, fresh \in Uuids, fails \in BOOLEAN :
          /\ arg' = Some(Request("update_item", path, payload))
          /\ IF ~parse_str(path).ok
             THEN ret' = Some(Response(400, "Invalid UUID")) /\ item' = None /\ row' = row
             ELSE StoreItem(into_media_item(path_id(parse_str(path).val, payload), fresh),
                            200, fails)
    /\ before' = row
    /\ op' = "update_item"
    /\ UNCHANGED <<prev, wire>>

\* DELETE /api/items/{id}
DeleteItem ==
    /\ \E path \in WebPaths :
          /\ arg' = Some(Request("delete_item", path, None))
          /\ IF ~parse_str(path).ok
             THEN ret' = Some(Response(400, "Invalid UUID")) /\ row' = row
             ELSE /\ row' = delete_row(row, uuid_to_string(parse_str(path).val))
                  /\ ret' = Some(Response(IF row' # row THEN 204 ELSE 404, None))
    /\ item' = None
    /\ before' = row
    /\ op' = "delete_item"
    /\ UNCHANGED <<prev, wire>>

\* GET /api/items/{id}
GetItem ==
    /\ \E path \in WebPaths :
          /\ arg' = Some(Request("get_item", path, None))
          /\ IF ~parse_str(path).ok
             THEN ret' = Some(Response(400, "Invalid UUID"))
             ELSE LET found == {x \in row : x.id = uuid_to_string(parse_str(path).val)}
                  IN IF found = {}
                     THEN ret' = Some(Response(404, None))
                     ELSE \E x \in found :
                             LET it == row_to_media_item(x).val
                             IN \E iter \in Orders(it.tags) :
                                   ret' = Some(Response(200, ApiMediaItem_from(it, iter)))
    /\ item' = None
    /\ before' = row
    /\ op' = "get_item"
    /\ UNCHANGED <<prev, wire, row>>

NextWeb == CreateItem \/ UpdateItem \/ DeleteItem \/ GetItem

SpecWeb == InitWeb /\ [][NextWeb]_vars

\* the request that was handled last and its response
Req == Unwrap(arg)
Resp == Unwrap(ret)

\* C22: a request that gets as far as upsert_item, and whose statement the database
\* accepts, leaves exactly one row with the record's id, which reads back as the
\* record, and leaves every row with another id as it was; when the request before it
\* stored the same record, the table does not change.
C22_UpsertReplaces ==
    [][(op' \in {"create_item", "update_item"} /\ IsSome(item') /\ Unwrap(ret').status # 500) =>
          /\ {row_to_media_item(x).val : x \in {y \in row' : y.id = uuid_to_string(Unwrap(item').id)}}
                = item'
          /\ Cardinality({y \in row' : y.id = uuid_to_string(Unwrap(item').id)}) = 1
          /\ {y \in row' : y.id # uuid_to_string(Unwrap(item').id)}
                = {y \in row : y.id # uuid_to_string(Unwrap(item').id)}
          /\ (item' = item /\ op \in {"create_item", "update_item"} /\ Resp.status # 500) =>
                row' = row]_vars

\* a row was replaced while another one stayed
C22_Witness ==
    /\ op = "update_item"
    /\ Resp.status = 200
    /\ Cardinality(before) = 2
    /\ Cardinality(row) = 2
    /\ row # before
    /\ Now.id = 1

\* C23: a POST or PUT whose body does not recompose (its media_type is unknown or, for
\* a POST, its id is neither empty nor an identifier) is answered 400 and no record is
\* handed to the database: the table is the one the request found.
C23_RejectedWhole ==
    (op \in {"create_item", "update_item"}
        /\ (Req.payload.media_type \notin
                {"movie", "series", "anime", "manga", "manhwa", "webtoon", "book",
                 "light_novel", "web_novel"}
            \/ (op = "create_item" /\ ~IdAccepted(Req.payload.id)))) =>
        /\ Resp.status = 400
        /\ item = None
        /\ row = before

\* a PUT of an unknown media_type to the id of a stored row
C23_Witness ==
    /\ op = "update_item"
    /\ Req.path = uuid_to_string(1)
    /\ Req.payload.media_type = "dvd"
    /\ Resp.status = 400
    /\ uuid_to_string(1) \in Ids(row)
    /\ row = before

\* a POST with an unreadable id, to a table that is not empty
C23_WitnessId ==
    /\ op = "create_item"
    /\ Req.payload.id = JunkText
    /\ Req.payload.media_type = "movie"
    /\ Resp = Response(400, Err("Invalid UUID", JunkText))
    /\ row # {}
    /\ row = before

\* the identifier the path of the last request spells
PathUuid == parse_str(Req.path).val

\* C29: a PUT whose path spells an identifier and whose body names a known media_type
\* stores and returns a record with the path's identifier, whatever the id of the body
\* is, and leaves every row with another id as it was.
C29_PathIdWins ==
    (op = "update_item" /\ parse_str(Req.path).ok /\ Req.payload.media_type \in WireMediaTypes
        /\ Resp.status # 500) =>
        /\ Resp.status = 200
        /\ Resp.body.id = uuid_to_string(PathUuid)
        /\ Now.id = PathUuid
        /\ {row_to_media_item(y).val : y \in {x \in row : x.id = uuid_to_string(PathUuid)}} = item
        /\ {x \in row : x.id # uuid_to_string(PathUuid)}
              = {x \in before : x.id # uuid_to_string(PathUuid)}

\* the body names the id of another stored row
C29_Witness ==
    /\ op = "update_item"
    /\ Req.path = [form |-> "upper", uuid |-> 1]
    /\ Req.payload.id = uuid_to_string(MaxId)
    /\ Resp.status = 200
    /\ Now.id = 1
    /\ uuid_to_string(MaxId) \in Ids(before)
    /\ {x \in row : x.id = uuid_to_string(MaxId)} = {x \in before : x.id = uuid_to_string(MaxId)}

\* the body's id is unreadable
C29_WitnessJunk ==
    /\ op = "update_item"
    /\ Req.path = uuid_to_string(MaxId)
    /\ Req.payload.id = JunkText
    /\ Resp.status = 200
    /\ Now.id = MaxId

----------------------------------------------------------------------------
(* core/app.rs: the CLI, one menu selection after another.  item is the App (none
   before App::new and when it failed), a record of its archive and its dirty flag;
   row is the table; ret is the result of the storage call the last selection made
   (none when it made no call); arg is what was typed; wire is the error of the first
   save that failed, after which the run is not followed further. *)

App(archive, dirty) == [archive |-> archive, dirty |-> dirty]

\* the rows save_all leaves for an archive
save_rows(items) ==
    {bind_params(items[i], CHOOSE q \in Orders(items[i].tags) : TRUE) : i \in 1..Len(items)}

\* SqlStorage::save_all as a whole: the new rows, or the old ones and an error when
\* the database fails or two records share an id
save_all(rows, items, fails) ==
    IF fails \/ \E i, j \in 1..Len(items) : i # j /\ items[i].id = items[j].id
    THEN [rows |-> rollback(rows, {}), result |-> Err("StorageError::Database", "save_all")]
    ELSE [rows |-> save_rows(items), result |-> Ok("()")]

\* an auto_save that never writes
auto_save_skips(app, rows, fails) ==
    [app |-> [app EXCEPT !.dirty = FALSE], rows |-> rows, result |-> None]

\* App::auto_save: if dirty, save_all (an error is only printed) and dirty = false
auto_save(app, rows, fails) ==
    IF app.dirty
    THEN [app |-> [app EXCEPT !.dirty = FALSE],
          rows |-> save_all(rows, app.archive, fails).rows,
          result |-> Some(save_all(rows, app.archive, fails).result)]
    ELSE [app |-> app, rows |-> rows, result |-> None]

\* a complete action that does not look whether the item is completed already
complete_item_unguarded(app, idx) ==
    App([app.archive EXCEPT ![idx] = force_complete(@)], TRUE)

\* App::complete_item up to auto_save
complete_item(app, idx) ==
    IF is_completed(app.archive[idx]) THEN app
    ELSE App([app.archive EXCEPT ![idx] = force_complete(@)], TRUE)

\* the identifiers Uuid::new_v4() draws in a run
CliIds == {1, MaxId}

\* the tables App::new finds: rows of earlier runs, one of which may have been
\* changed from outside
CliTables ==
    LET a == bind_params(new(1, "Dune", Movie("WatchStatus::Completed")), <<>>)
        b == bind_params(new(MaxId, "Akira", Series([current |-> MaxProgress, total |-> Some(MaxProgress)], "WatchStatus::Watching")), <<>>)
    IN {{}, {a}, {b}, {a, b},
        {[a EXCEPT !.media_type = "film"], b},
        {a, [b EXCEPT !.id = JunkText]},
        {[a EXCEPT !.tags = [form |-> "truncated", elems |-> <<"scifi">>]], b}}

InitCli ==
    /\ item = None
    /\ before = None
    /\ op = "new"
    /\ prev = "new"
    /\ arg = None
    /\ ret = None
    /\ wire = None
    /\ row \in CliTables

\* App::new: storage.load_all()?
AppNew ==
    /\ op = "new"
    /\ \E q \in Orders(row) :
          /\ ret' = Some(load_rows(q, <<>>))
          /\ item' = IF Unwrap(ret').ok THEN Some(App(Unwrap(ret').val, FALSE)) ELSE None
    /\ op' = "App::new"
    /\ UNCHANGED <<before, prev, arg, wire, row>>

\* the App is at the main menu
AtMenu == IsSome(item) /\ wire = None /\ op # "exit"

TheApp == Unwrap(item)

\* the end of a mutating flow: the App as the flow left it is saved by auto_save
Flow(name, input, app) ==
    /\ \E fails \in BOOLEAN :
          LET s == auto_save(app, row, fails)
          IN /\ item' = Some(s.app)
             /\ row' = s.rows
             /\ ret' = s.result
             /\ wire' = IF IsSome(s.result) /\ ~Unwrap(s.result).ok THEN s.result ELSE wire
    /\ op' = name
    /\ arg' = Some(input)
    /\ UNCHANGED <<before, prev>>

\* [2]: a title and a kind are typed, MediaItem::new is pushed
AddItemFlow ==
    /\ AtMenu
    /\ \E fresh \in CliIds \ {it.id : it \in Range(TheApp.archive)},
          mt \in {Series([current |-> 1, total |-> Some(MaxProgress)], "WatchStatus::Watching")} :
          Flow("add_item_flow", mt, App(Append(TheApp.archive, new(fresh, "Dune", mt)), TRUE))

\* [1]: a search result is chosen and pushed
SearchAndAddFlow ==
    /\ AtMenu
    /\ \E fresh \in CliIds \ {it.id : it \in Range(TheApp.archive)},
          result \in {r \in SearchResults : r.source = "tmdb" /\ r.global_score = Some(79)} :
          Flow("search_and_add_flow", result,
               App(Append(TheApp.archive, SearchResult_into_media_item(result, fresh)), TRUE))

\* [5]: an item and a score are typed
SetScoreFlow ==
    /\ AtMenu
    /\ \E idx \in 1..Len(TheApp.archive) :
          Flow("set_score_flow", <<idx, Num(845)>>,
               App([TheApp.archive EXCEPT ![idx] = set_score(@, Num(845))], TRUE))

\* [6]: an item is typed
CompleteItem ==
    /\ AtMenu
    /\ \E idx \in 1..Len(TheApp.archive) :
          Flow("complete_item", idx, complete_item(TheApp, idx))

\* [7]: an item and its new current progress are typed; a Movie has none
UpdateProgressFlow ==
    /\ AtMenu
    /\ \E idx \in 1..Len(TheApp.archive) :
          Flow("update_progress_flow", <<idx, MaxProgress>>,
               IF TheApp.archive[idx].media_type.tag = "Movie" THEN TheApp
               ELSE App([TheApp.archive EXCEPT ![idx].media_type.progress.current = MaxProgress],
                        TRUE))

\* [8]: an item, add or remove, and a tag are typed; nothing is saved when the tag
\* was there already, or was not there to remove
ManageTagsFlow ==
    /\ AtMenu
    /\ \E idx \in 1..Len(TheApp.archive), choice \in {"1", "2"} :
          LET tags == TheApp.archive[idx].tags
              changed == IF choice = "1" THEN "scifi" \notin tags ELSE "scifi" \in tags
              after == IF choice = "1" THEN tags \cup {"scifi"} ELSE tags \ {"scifi"}
          IN Flow("manage_tags_flow", <<idx, choice, "scifi">>,
                  IF changed THEN App([TheApp.archive EXCEPT ![idx].tags = after], TRUE)
                  ELSE TheApp)

\* [3], [4], an invalid selection, or a flow left at one of its prompts: nothing changes
ListItems ==
    /\ AtMenu
    /\ Flow("list_items", "3", TheApp)

\* [9]: save_all and leave the loop
SaveAndExit ==
    /\ AtMenu
    /\ \E fails \in BOOLEAN :
          /\ row' = save_all(row, TheApp.archive, fails).rows
          /\ ret' = Some(save_all(row, TheApp.archive, fails).result)
    /\ wire' = IF ~Unwrap(ret').ok THEN ret' ELSE wire
    /\ op' = "exit"
    /\ arg' = Some("9")
    /\ UNCHANGED <<item, before, prev>>

NextCli ==
    \/ AppNew
    \/ AddItemFlow
    \/ SearchAndAddFlow
    \/ SetScoreFlow
    \/ CompleteItem
    \/ UpdateProgressFlow
    \/ ManageTagsFlow
    \/ ListItems
    \/ SaveAndExit

SpecCli == InitCli /\ [][NextCli]_vars

\* a row of the table that does not recompose
Unreadable(r) == ~row_to_media_item(r).ok

\* C24: App::new yields an App whose archive has one record for every row of the
\* table, or, when a single row does not recompose, the Corruption error and no App;
\* while the table holds such a row there is no App, so nothing is saved over it.
C24_LoadAllOrNothing ==
    /\ op = "App::new" =>
          IF \E r \in row : Unreadable(r)
          THEN ~Result.ok /\ Result.err = "StorageError::Corruption" /\ item = None
          ELSE /\ Result.ok
               /\ Len(Result.val) = Cardinality(row)
               /\ Range(Result.val) = Records(row)
               /\ item = Some(App(Result.val, FALSE))
    /\ (\E r \in row : Unreadable(r)) => item = None

\* one row of two has a media_type the program never wrote
C24_Witness ==
    /\ op = "App::new"
    /\ Cardinality(row) = 2
    /\ Cardinality({r \in row : Unreadable(r)}) = 1
    /\ Result = Err("StorageError::Corruption", <<"Unknown media_type", "film">>)
    /\ item = None

\* C28: as long as no save_all has failed, the App is at the main menu with the table
\* holding exactly the records of its archive, one row for each, and nothing left to
\* save.
C28_StoreFollowsArchive ==
    (IsSome(item) /\ wire = None) =>
        /\ Records(row) = Range(TheApp.archive)
        /\ Cardinality(row) = Len(TheApp.archive)
        /\ ~TheApp.dirty

\* a tag was added to the second of two records and saved
C28_Witness ==
    /\ op = "manage_tags_flow"
    /\ arg = Some(<<2, "1", "scifi">>)
    /\ ret = Some(Ok("()"))
    /\ Len(TheApp.archive) = 2
    /\ TheApp.archive[2].tags = {"scifi"}
    /\ \E r \in row : r.tags = to_json(<<"scifi">>)

\* C30: a complete action on a record for which is_completed() holds changes neither
\* the App nor the table and makes no storage call.
C30_CompleteNoOp ==
    [][(op' = "complete_item" /\ IsSome(item) /\ is_completed(TheApp.archive[Unwrap(arg')])) =>
          /\ item' = item
          /\ row' = row
          /\ ret' = None]_vars

\* a Series that is finished and still Watching, beside another record
C30_Witness ==
    /\ op = "complete_item"
    /\ ret = None
    /\ Len(TheApp.archive) = 2
    /\ LET it == TheApp.archive[Unwrap(arg)]
       IN /\ it.media_type.tag = "Series"
          /\ it.media_type.status = "WatchStatus::Watching"
          /\ is_finished(it.media_type.progress)

----------------------------------------------------------------------------
(* The completion guarantee of core/models.rs, checked under SpecModel *)

\* C26: after force_complete, is_completed() is true of the record, whatever its kind
\* and whatever its progress was, also when the progress ends as 0 of 0 and is not
\* finished: the status alone answers.
C26_CompletedAfterForce ==
    /\ op = "force_complete" => is_completed(Now)
    /\ (op = "is_completed" /\ prev = "force_complete") => ret = Some(TRUE)

\* a Series at 0 with no total was completed: 0 of 0, not finished, yet completed
C26_Witness ==
    /\ op = "is_completed"
    /\ prev = "force_complete"
    /\ Now.media_type.tag = "Series"
    /\ Now.media_type.progress = [current |-> 0, total |-> Some(0)]
    /\ ~is_finished(Now.media_type.progress)
    /\ ret = Some(TRUE)

\* a Movie, which has no progress at all, was completed
C26_WitnessMovie ==
    /\ op = "force_complete"
    /\ Now.media_type.tag = "Movie"
    /\ Was.media_type.status = "WatchStatus::PlanToWatch"
    /\ is_completed(Now)

----------------------------------------------------------------------------
(* core/input.rs: InputHandler over an InputProvider                        *)
(* Under SpecInput: arg is the provider's answer to read_line, op the       *)
(* method called, ret its result.                                           *)

\* the longest line typed
MaxLine == 4

White_Space == {" ", "\t"}
Digit == [c \in {"2", "4"} |-> IF c = "2" THEN 2 ELSE 4]

\* the characters a line is made of: white space, digits, a sign, a letter
Chars == White_Space \cup DOMAIN Digit \cup {"+", "x"}

RECURSIVE trim_start(_)
trim_start(s) ==
    IF s # <<>> /\ Head(s) \in White_Space THEN trim_start(Tail(s)) ELSE s

RECURSIVE trim_end(_)
trim_end(s) ==
    IF s # <<>> /\ s[Len(s)] \in White_Space THEN trim_end(SubSeq(s, 1, Len(s) - 1)) ELSE s

\* a trim that removes the leading white space only
trim_start_only(s) == trim_start(s)

\* str::trim
trim(s) == trim_end(trim_start(s))

RECURSIVE decimal(_, _)
decimal(s, acc) ==
    IF s = <<>> THEN acc ELSE decimal(Tail(s), 10 * acc + Digit[Head(s)])

\* <u32 as FromStr>::from_str: digits after an optional +; nothing else, no white
\* space (MaxLine digits stay far below u32::MAX, so PosOverflow does not arise)
from_str_u32(s) ==
    LET digits == IF s # <<>> /\ Head(s) = "+" THEN Tail(s) ELSE s
    IN IF s = <<>>
       THEN Err("InputError::Parse", "cannot parse integer from empty string")
       ELSE IF digits = <<>> \/ \E i \in 1..Len(digits) : digits[i] \notin DOMAIN Digit
       THEN Err("InputError::Parse", "invalid digit found in string")
       ELSE Ok(decimal(digits, 0))

\* self.provider.read_line(prompt)
get_string(line) == line

\* self.get_string(prompt).map(|s| s.trim().to_string())
get_string_trimmed(line) ==
    IF get_string(line).ok THEN Ok(trim(get_string(line).val)) ELSE get_string(line)

\* let s = self.get_string(prompt)?; s.parse::<T>().map_err(..)
parse(line) ==
    IF get_string(line).ok THEN from_str_u32(get_string(line).val) ELSE get_string(line)

\* let s = self.get_string_trimmed(prompt)?; s.parse::<T>().map_err(..)
parse_trimmed(line) ==
    IF get_string_trimmed(line).ok
    THEN from_str_u32(get_string_trimmed(line).val)
    ELSE get_string_trimmed(line)

TypedLines == UNION {[1..n -> Chars] : n \in 0..MaxLine}

\* what read_line can answer: a line, or the provider's I/O failure
Answers == {Ok(s) : s \in TypedLines} \cup {Err("InputError::Io", "UnexpectedEof")}

InitInput ==
    /\ arg \in {Some(a) : a \in Answers}
    /\ op = "new"
    /\ ret = None
    /\ item = None
    /\ before = None
    /\ prev = "new"
    /\ wire = None
    /\ row = None

Call(name, result) ==
    /\ op = "new"
    /\ op' = name
    /\ ret' = Some(result)
    /\ UNCHANGED <<item, before, prev, arg, wire, row>>

GetString == Call("get_string", get_string(Unwrap(arg)))

GetStringTrimmed == Call("get_string_trimmed", get_string_trimmed(Unwrap(arg)))

Parse == Call("parse", parse(Unwrap(arg)))

ParseTrimmed == Call("parse_trimmed", parse_trimmed(Unwrap(arg)))

NextInput == GetString \/ GetStringTrimmed \/ Parse \/ ParseTrimmed

SpecInput == InitInput /\ [][NextInput]_vars

----------------------------------------------------------------------------
(* Claims about core/input.rs, checked under SpecInput *)

Line == Unwrap(arg).val
Blank(s) == \A i \in 1..Len(s) : s[i] \in White_Space
Numeral(s) == s # <<>> /\ \A i \in 1..Len(s) : s[i] \in DOMAIN Digit

\* the ways of taking white space off both ends of s, as <<leading, trailing>> counts
Cuts(s) ==
    {c \in (0..Len(s)) \X (0..Len(s)) :
        /\ c[1] + c[2] <= Len(s)
        /\ Blank(SubSeq(s, 1, c[1]))
        /\ Blank(SubSeq(s, Len(s) - c[2] + 1, Len(s)))}

Cut(s, c) == SubSeq(s, c[1] + 1, Len(s) - c[2])

\* s without its leading and trailing white space: the cuts that leave none at an end
Strippings(s) ==
    {Cut(s, c) : c \in {d \in Cuts(s) :
        Cut(s, d) # <<>> => /\ Head(Cut(s, d)) \notin White_Space
                            /\ Cut(s, d)[Len(Cut(s, d))] \notin White_Space}}

Padded(s) == \E t \in Strippings(s) : Numeral(t) /\ t # s

\* C25: parse_trimmed answers what parsing the line without its leading and trailing
\* white space answers, so a padded numeral parses to its value; parse reads the line
\* as typed, so a padded numeral fails with InputError::Parse; get_string_trimmed of a
\* line of white space only is the empty string.
C25_TrimmedParse ==
    Unwrap(arg).ok =>
        /\ op = "parse_trimmed" =>
              \A t \in Strippings(Line) :
                  /\ Result = from_str_u32(t)
                  /\ Numeral(t) => Result = Ok(decimal(t, 0))
        /\ op = "parse" =>
              /\ Result = from_str_u32(Line)
              /\ Padded(Line) => ~Result.ok /\ Result.err = "InputError::Parse"
        /\ (op = "get_string_trimmed" /\ Blank(Line)) => Result = Ok(<<>>)

\* " 42 " parses to 42 with parse_trimmed
C25_Witness ==
    /\ op = "parse_trimmed"
    /\ arg = Some(Ok(<<" ", "4", "2", " ">>))
    /\ ret = Some(Ok(42))

\* " 42 " does not parse with parse
C25_WitnessRaw ==
    /\ op = "parse"
    /\ arg = Some(Ok(<<" ", "4", "2", " ">>))
    /\ ret = Some(Err("InputError::Parse", "invalid digit found in string"))

\* three blanks trim to the empty string
C25_WitnessBlank ==
    /\ op = "get_string_trimmed"
    /\ arg = Some(Ok(<<" ", " ", " ">>))
    /\ ret = Some(Ok(<<>>))

----------------------------------------------------------------------------
(* infra/web.rs: concurrent requests over the shared Arc<Mutex<WebState>>   *)
(* Under SpecServe: item is the state of every request task (its handler,   *)
(* its position in the handler's body, whether its database call is in      *)
(* flight), wire the task holding the mutex.                                *)

\* the number of requests served at the same time
MaxTasks == 2

Tasks == 1..MaxTasks

\* the handlers of the Router that reach the database (explore_items does not)
Handlers ==
    {"list_items", "create_item", "get_item", "update_item", "delete_item",
     "search_items", "get_stats"}

\* a search handler that calls the database without taking the lock
handler_body_unlocked(handler) ==
    IF handler = "search_items" THEN <<"check", "db">>
    ELSE IF handler \in {"list_items", "get_stats"} THEN <<"lock", "db">>
    ELSE IF handler = "update_item" THEN <<"check", "check", "lock", "db">>
    ELSE <<"check", "lock", "db">>

\* the body of a handler: "check" is a test with an early return (the path's Uuid,
\* into_media_item, the empty query), "lock" is state.db_state.lock().await, "db" is
\* the awaited call on st.db; the guard st is dropped when the handler returns
handler_body(handler) ==
    IF handler \in {"list_items", "get_stats"} THEN <<"lock", "db">>
    ELSE IF handler = "update_item" THEN <<"check", "check", "lock", "db">>
    ELSE <<"check", "lock", "db">>

Idle == [handler |-> "", pc |-> 0, in_call |-> FALSE]

InitServe ==
    /\ item = [t \in Tasks |-> Idle]
    /\ wire = None
    /\ op = "new"
    /\ before = None
    /\ prev = "new"
    /\ arg = None
    /\ ret = None
    /\ row = None

At(t, step) ==
    /\ item[t].pc \in 1..Len(handler_body(item[t].handler))
    /\ handler_body(item[t].handler)[item[t].pc] = step
    /\ ~item[t].in_call

Finished(t) == item[t].pc = Len(handler_body(item[t].handler)) + 1

Step(name, tasks, mutex) ==
    /\ item' = tasks
    /\ wire' = mutex
    /\ op' = name
    /\ UNCHANGED <<before, prev, arg, ret, row>>

\* the Router hands a request to its handler in a task of its own
Accept ==
    \E t \in Tasks, h \in Handlers :
        /\ item[t] = Idle
        /\ Step("accept", [item EXCEPT ![t] = [handler |-> h, pc |-> 1, in_call |-> FALSE]], wire)

\* a test that lets the handler go on, or return its answer at once
Check ==
    \E t \in Tasks, passes \in BOOLEAN :
        /\ At(t, "check")
        /\ Step("check", [item EXCEPT ![t].pc = IF passes THEN @ + 1
                                                  ELSE Len(handler_body(item[t].handler)) + 1], wire)

\* state.db_state.lock().await completes once no guard is alive
Lock ==
    \E t \in Tasks :
        /\ At(t, "lock")
        /\ wire = None
        /\ Step("lock", [item EXCEPT ![t].pc = @ + 1], Some(t))

\* the call on st.db is made and awaited
DbBegin ==
    \E t \in Tasks :
        /\ At(t, "db")
        /\ Step("db_begin", [item EXCEPT ![t].in_call = TRUE], wire)

\* the call on st.db completes
DbEnd ==
    \E t \in Tasks :
        /\ item[t].in_call
        /\ Step("db_end", [item EXCEPT ![t].in_call = FALSE, ![t].pc = @ + 1], wire)

\* the handler returns its Response; a guard it holds is dropped
Return ==
    \E t \in Tasks :
        /\ Finished(t)
        /\ Step("return", [item EXCEPT ![t] = Idle], IF wire = Some(t) THEN None ELSE wire)

NextServe == Accept \/ Check \/ Lock \/ DbBegin \/ DbEnd \/ Return

SpecServe == InitServe /\ [][NextServe]_vars

----------------------------------------------------------------------------
(* Claims about the handlers' locking, checked under SpecServe *)

InCall == {t \in Tasks : item[t].in_call}

\* C27: a handler makes its database call only while it holds the one mutex over the
\* database state, so at no time are two database calls of concurrent requests in
\* flight.
C27_OneDbCallAtATime ==
    /\ \A t \in InCall : wire = Some(t)
    /\ Cardinality(InCall) <= 1

\* one request is inside its database call while another waits at the lock
C27_Witness ==
    \E t, u \in Tasks :
        /\ t # u
        /\ item[t].in_call
        /\ item[t].handler = "create_item"
        /\ wire = Some(t)
        /\ item[u].handler = "search_items"
        /\ item[u].pc = 2

====
